---- MODULE Spec2Model ----
(***************************************************************************)
(* Generational references (genref): the generation counters of           *)
(* counter.rs (thread-confined RawLocalCounter, shared GlobalCounter,      *)
(* promotion, free lists) and the handle layer of lib.rs (Strong, Weak,    *)
(* Reading, Writing).                                                      *)
(*                                                                         *)
(*   Spec        one thread using the handle layer (lib.rs), with          *)
(*               recycling, count wrap-around and promotion (Weak::share)  *)
(*   SpecRaw     one thread using the counter API directly, as tests.rs    *)
(*               does (new/free, the AccessControl calls, globalize)       *)
(*   SpecShared  several threads using handles of one allocation whose     *)
(*               counter is shared, one atomic access per step             *)
(***************************************************************************)
EXTENDS Integers, Sequences, FiniteSets, TLC

\* ---------------------------------------------------------------- bounds
\* local counters the thread's arena may mint
NumLocal == 2
\* shared counters the global arena may mint
NumGlobal == 1
\* the counts are u32 (wrapping_add); the model wraps at this modulus
CounterModulus == 3
\* allocations (Strong::new calls) in a run of Spec
MaxAllocs == 2
\* Reading guards outstanding at once (Spec), shared locks held at once on one
\* counter (SpecRaw), Reading guards of one thread (SpecShared)
MaxReaders == 2
\* threads of SpecShared and SpecPool
NumThreads == 2
\* shared counters one thread of SpecPool holds at a time
MaxHold == 1

\* slots the pool allocator of one thread can mint
NumSlots == 2
\* slots the pool allocators of two threads can mint (SpecLatch)
LatchSlots == NumSlots + 1
\* generations of a slot are counted modulo GenModulus (usize::MAX + 1, an even
\* number: a slot starts at an odd generation and every deallocation adds two)
GenHalf == 3
GenModulus == 2 * GenHalf
\* guards registered at a time
MaxGuards == 2
\* the first request size of a local pool (32 in the source)
RequestInit == 1

\* the payload values of the tests: Strong::new(1u32), *p = 2
InitialValue == 1
Values == {InitialValue, InitialValue + 1}

\* counter.rs:270
COUNTER_INIT == 1

VARIABLES
    \* ---- counter layer (counter.rs)
    cell,        \* LocalCounter: Cell<LocalOrGlobalCounter>, per local counter
    gcell,       \* GlobalCounter: access (RawRwLock) and counter, per shared counter
    nextFresh,   \* local counters minted so far (LocalGeneration::fresh)
    gNextFresh,  \* shared counters minted so far (GlobalGeneration::fresh)
    freeList,    \* thread-local FREE_LIST (a Vec used as a stack)
    gFreeList,   \* global FREE_LIST
    \* ---- handle layer, one thread (lib.rs)
    strong,      \* per allocation: "unborn", "alive", "gone" (dropped or taken)
    genptr,      \* per allocation: the local counter of its RawRef
    genref,      \* per allocation: the count cached in its RawRef (validity())
    readings,    \* per allocation: live Reading guards
    writing,     \* per allocation: live Writing guards
    payload,     \* per allocation: the Box: "none", "live", "dropped", "taken",
                 \* "twice" (dropped or moved out a second time)
    last,        \* the last call and what it returned
    \* ---- counter API used directly (tests.rs)
    held,        \* counters obtained by new() and not yet given to free()
    hShared,     \* per counter: shared locks the caller holds
    hUpgr,       \* per counter: upgradable locks the caller holds
    hExcl,       \* per counter: exclusive locks the caller holds
    maxHeld,     \* the most counters held at once so far
    \* ---- handle layer, several threads, one shared allocation
    pc,          \* per thread: where it is in the call it is running
    tReadings,   \* per thread: live Reading guards it owns
    tWriting,    \* per thread: live Writing guards it owns
    sStrong,     \* the Strong of the shared allocation: "none", "alive", "gone"
    sDestructed, \* times the shared allocation's Box was dropped or moved out
    \* ---- the global counter pool used from several threads (tests.rs)
    tHeld,       \* per thread: the shared counters it got from new() and holds
    tFreeing,    \* per thread: the counter moved into a running free(), or 0
    \* ---- the payloads' values
    box,         \* per allocation: the value in its Box
    \* ---- the layout-keyed pool allocator
    pools,       \* the slots, the thread's LOCAL_POOL and the GLOBAL_POOL
    arena,       \* the arenas that mint counters, and the counters handed out
    \* ---- the ledger variant (local_ledger.rs)
    ledger       \* per counter: LocalCounter::lock

counterVars == <<cell, gcell, nextFresh, gNextFresh, freeList, gFreeList>>
handleVars == <<strong, genptr, genref, readings, writing, payload>>
rawVars == <<held, hShared, hUpgr, hExcl, maxHeld>>
sharedVars == <<pc, tReadings, tWriting, sStrong, sDestructed>>
poolVars == <<tHeld, tFreeing>>
valueVars == <<box>>
allocVars == <<pools, arena, ledger>>
vars == <<counterVars, handleVars, rawVars, sharedVars, poolVars, valueVars, allocVars, last>>

Locals == 1..NumLocal
Globals == 1..NumGlobal
Allocs == 1..MaxAllocs
Threads == 1..NumThreads

\* ------------------------------------------------ RawLocalCounter (counter.rs)
\* The lock word: 0 unlocked, 2*n (+1 when upgradable) shared, -1 exclusive.
\* Each call returns [ok, st]: its boolean result and the new lock word.

RawLocalCounter_new == [tag |-> "Local", access |-> 0, counter |-> COUNTER_INIT, g |-> 0]

RawLocalCounter_bump(n) == IF n # 0 THEN (n + 1) % CounterModulus ELSE n

\* fault variant: a refused call still counts a reader
RawLocalCounter_try_lock_shared_counting(a) == [ok |-> a >= 0, st |-> a + 2]

RawLocalCounter_try_lock_shared(a) ==
    IF a >= 0 THEN [ok |-> TRUE, st |-> a + 2] ELSE [ok |-> FALSE, st |-> a]

\* fault variant: takes the exclusive lock over shared holders
RawLocalCounter_try_lock_exclusive_over_readers(a) ==
    IF a >= 0 THEN [ok |-> TRUE, st |-> -1] ELSE [ok |-> FALSE, st |-> a]

RawLocalCounter_try_lock_exclusive(a) ==
    IF a = 0 THEN [ok |-> TRUE, st |-> -1] ELSE [ok |-> FALSE, st |-> a]

\* fault variant: a second upgradable lock is granted
RawLocalCounter_try_lock_upgradable_twice(a) ==
    IF a >= 0 THEN [ok |-> TRUE, st |-> a + 1] ELSE [ok |-> FALSE, st |-> a]

\* access & 1 == 0, then access | 1 (two's complement: -1 & 1 = 1)
RawLocalCounter_try_lock_upgradable(a) ==
    IF a % 2 = 0 THEN [ok |-> TRUE, st |-> a + 1] ELSE [ok |-> FALSE, st |-> a]

\* fault variant: the exclusive holder becomes the upgradable holder as well
RawLocalCounter_downgrade_to_upgradable(a) == [ok |-> TRUE, st |-> 3]

RawLocalCounter_downgrade(a) == [ok |-> TRUE, st |-> 2]

\* fault variant: upgrades whenever the upgradable bit is set, readers or not
RawLocalCounter_try_upgrade_over_readers(a) ==
    IF a >= 1 /\ a % 2 = 1 THEN [ok |-> TRUE, st |-> -1] ELSE [ok |-> FALSE, st |-> a]

RawLocalCounter_try_upgrade(a) ==
    IF a = 1 THEN [ok |-> TRUE, st |-> -1] ELSE [ok |-> FALSE, st |-> a]

RawLocalCounter_unlock_shared(a) == [ok |-> TRUE, st |-> a - 2]

RawLocalCounter_unlock_exclusive(a) == [ok |-> TRUE, st |-> 0]

\* access & !1
RawLocalCounter_unlock_upgradable(a) == [ok |-> TRUE, st |-> a - (a % 2)]

RawLocalCounter_try_shared_into_exclusive(a) ==
    IF a = 2 THEN [ok |-> TRUE, st |-> -1] ELSE [ok |-> FALSE, st |-> a]

\* ---------------------------------------------------- GlobalCounter (counter.rs)
\* access is a parking_lot RawRwLock: readers (plain shared holders), the
\* upgradable holder, the writer.  counter is an AtomicU32.

RwLock_INIT == [readers |-> 0, upgradable |-> FALSE, writer |-> FALSE]

GlobalCounter_new == [access |-> RwLock_INIT, counter |-> COUNTER_INIT]

\* the compare_exchange loop takes effect at its successful exchange
GlobalCounter_bump(n) == IF n = 0 THEN n ELSE (n + 1) % CounterModulus

\* set_gen: raises the counter to gen, never lowers it
GlobalCounter_set_gen(n, gen) == IF gen <= n THEN n ELSE gen

\* fault variant: a shared lock is refused while the upgradable lock is held
GlobalCounter_try_lock_shared_excluding_upgradable(s) ==
    IF ~s.writer /\ ~s.upgradable THEN [ok |-> TRUE, st |-> [s EXCEPT !.readers = @ + 1]]
    ELSE [ok |-> FALSE, st |-> s]

GlobalCounter_try_lock_shared(s) ==
    IF ~s.writer THEN [ok |-> TRUE, st |-> [s EXCEPT !.readers = @ + 1]]
    ELSE [ok |-> FALSE, st |-> s]

\* fault variant: the exclusive lock is granted beside the upgradable holder
GlobalCounter_try_lock_exclusive_beside_upgradable(s) ==
    IF s.readers = 0 /\ ~s.writer THEN [ok |-> TRUE, st |-> [s EXCEPT !.writer = TRUE]]
    ELSE [ok |-> FALSE, st |-> s]

GlobalCounter_try_lock_exclusive(s) ==
    IF s = RwLock_INIT THEN [ok |-> TRUE, st |-> [s EXCEPT !.writer = TRUE]]
    ELSE [ok |-> FALSE, st |-> s]

GlobalCounter_try_lock_upgradable(s) ==
    IF ~s.writer /\ ~s.upgradable THEN [ok |-> TRUE, st |-> [s EXCEPT !.upgradable = TRUE]]
    ELSE [ok |-> FALSE, st |-> s]

GlobalCounter_downgrade(s) ==
    [ok |-> TRUE, st |-> [readers |-> 1, upgradable |-> FALSE, writer |-> FALSE]]

\* fault variant: upgrades over the shared holders
GlobalCounter_try_upgrade_over_readers(s) ==
    IF s.upgradable /\ ~s.writer
    THEN [ok |-> TRUE, st |-> [readers |-> 0, upgradable |-> FALSE, writer |-> TRUE]]
    ELSE [ok |-> FALSE, st |-> s]

GlobalCounter_try_upgrade(s) ==
    IF s.upgradable /\ s.readers = 0 /\ ~s.writer
    THEN [ok |-> TRUE, st |-> [readers |-> 0, upgradable |-> FALSE, writer |-> TRUE]]
    ELSE [ok |-> FALSE, st |-> s]

GlobalCounter_unlock_shared(s) == [ok |-> TRUE, st |-> [s EXCEPT !.readers = @ - 1]]

GlobalCounter_unlock_exclusive(s) == [ok |-> TRUE, st |-> [s EXCEPT !.writer = FALSE]]

GlobalCounter_unlock_upgradable(s) == [ok |-> TRUE, st |-> [s EXCEPT !.upgradable = FALSE]]

\* try_lock_upgradable, unlock_shared, try_upgrade, and on failure the
\* rollback try_lock_shared, unlock_upgradable; run here without interruption
\* (SpecShared runs the same calls one per step).  The panic!() of the rollback
\* unwinds with the lock as it then is: upgradable held, shared released.
GlobalCounter_try_shared_into_exclusive(s) ==
    LET u == GlobalCounter_try_lock_upgradable(s) IN
    IF ~u.ok THEN [ok |-> FALSE, st |-> s]
    ELSE LET s1 == GlobalCounter_unlock_shared(u.st).st
             up == GlobalCounter_try_upgrade(s1) IN
         IF up.ok THEN [ok |-> TRUE, st |-> up.st]
         ELSE LET back == GlobalCounter_try_lock_shared(s1) IN
              IF ~back.ok THEN [ok |-> FALSE, st |-> s1]
              ELSE [ok |-> FALSE, st |-> GlobalCounter_unlock_upgradable(back.st).st]

\* ------------------------------------------------------- AccessState (counter.rs)
AccessState_new(desc) ==
    IF desc >= 1 THEN [kind |-> "Readers", normal |-> desc \div 2, upgrade |-> desc % 2 = 1]
    ELSE IF desc = 0 THEN [kind |-> "None", normal |-> 0, upgrade |-> FALSE]
    ELSE IF desc = -1 THEN [kind |-> "Writer", normal |-> 0, upgrade |-> FALSE]
    ELSE [kind |-> "panic", normal |-> 0, upgrade |-> FALSE]

\* fault variant: replays the shared holders and forgets the upgradable one
AccessState_inflict_readers_only(as, s) ==
    IF as.kind = "Readers"
    THEN [s EXCEPT !.readers = @ + as.normal]
    ELSE IF as.kind = "Writer" THEN [s EXCEPT !.writer = TRUE]
    ELSE s

\* lock_shared `normal` times, then lock_upgradable; or lock_exclusive
AccessState_inflict(as, s) ==
    IF as.kind = "Readers"
    THEN [s EXCEPT !.readers = @ + as.normal, !.upgradable = as.upgrade]
    ELSE IF as.kind = "Writer" THEN [s EXCEPT !.writer = TRUE]
    ELSE s

\* ------------------------------------------- the counters as one heap (counter.rs)
\* A heap is [lc, gc, nf, gn, fl, gfl]: the local cells, the shared counters,
\* the numbers of local and shared counters minted, the thread-local and the
\* global free list.  A reference is [kind, id]: kind "L" is a LocalGeneration
\* (id a local counter), kind "G" a GlobalGeneration.

Heap == [lc |-> cell, gc |-> gcell, nf |-> nextFresh, gn |-> gNextFresh,
         fl |-> freeList, gfl |-> gFreeList]

SetHeap(h) ==
    /\ cell' = h.lc
    /\ gcell' = h.gc
    /\ nextFresh' = h.nf
    /\ gNextFresh' = h.gn
    /\ freeList' = h.fl
    /\ gFreeList' = h.gfl

LRef(l) == [kind |-> "L", id |-> l]
GRef(g) == [kind |-> "G", id |-> g]

\* the shared counter a reference reaches, 0 when it is a plain local counter
GlobalOf(h, r) ==
    IF r.kind = "G" THEN r.id
    ELSE IF h.lc[r.id].tag = "Global" THEN h.lc[r.id].g ELSE 0

\* delegate (LocalOrGlobalGeneration, LocalCounter, LocalOrGlobalCounter): a
\* call on a reference runs on the RawLocalCounter of its cell or, once the
\* cell is promoted, on the GlobalCounter; x is the [ok, st] the call returned
OnLocal(h, r, x) == [ok |-> x.ok, h |-> [h EXCEPT !.lc[r.id].access = x.st]]

OnGlobal(h, g, x) == [ok |-> x.ok, h |-> [h EXCEPT !.gc[g].access = x.st]]

try_lock_shared(h, r) ==
    LET g == GlobalOf(h, r) IN
    IF g = 0 THEN OnLocal(h, r, RawLocalCounter_try_lock_shared(h.lc[r.id].access))
    ELSE OnGlobal(h, g, GlobalCounter_try_lock_shared(h.gc[g].access))

\* fault variant: a call through a local handle runs on the RawLocalCounter
\* even after the cell was promoted
try_lock_exclusive_on_local(h, r) ==
    IF r.kind = "L"
    THEN OnLocal(h, r, RawLocalCounter_try_lock_exclusive(h.lc[r.id].access))
    ELSE OnGlobal(h, r.id, GlobalCounter_try_lock_exclusive(h.gc[r.id].access))

try_lock_exclusive(h, r) ==
    LET g == GlobalOf(h, r) IN
    IF g = 0 THEN OnLocal(h, r, RawLocalCounter_try_lock_exclusive(h.lc[r.id].access))
    ELSE OnGlobal(h, g, GlobalCounter_try_lock_exclusive(h.gc[g].access))

try_lock_upgradable(h, r) ==
    LET g == GlobalOf(h, r) IN
    IF g = 0 THEN OnLocal(h, r, RawLocalCounter_try_lock_upgradable(h.lc[r.id].access))
    ELSE OnGlobal(h, g, GlobalCounter_try_lock_upgradable(h.gc[g].access))

downgrade(h, r) ==
    LET g == GlobalOf(h, r) IN
    IF g = 0 THEN OnLocal(h, r, RawLocalCounter_downgrade(h.lc[r.id].access))
    ELSE OnGlobal(h, g, GlobalCounter_downgrade(h.gc[g].access))

try_upgrade(h, r) ==
    LET g == GlobalOf(h, r) IN
    IF g = 0 THEN OnLocal(h, r, RawLocalCounter_try_upgrade(h.lc[r.id].access))
    ELSE OnGlobal(h, g, GlobalCounter_try_upgrade(h.gc[g].access))

unlock_shared(h, r) ==
    LET g == GlobalOf(h, r) IN
    IF g = 0 THEN OnLocal(h, r, RawLocalCounter_unlock_shared(h.lc[r.id].access))
    ELSE OnGlobal(h, g, GlobalCounter_unlock_shared(h.gc[g].access))

unlock_exclusive(h, r) ==
    LET g == GlobalOf(h, r) IN
    IF g = 0 THEN OnLocal(h, r, RawLocalCounter_unlock_exclusive(h.lc[r.id].access))
    ELSE OnGlobal(h, g, GlobalCounter_unlock_exclusive(h.gc[g].access))

unlock_upgradable(h, r) ==
    LET g == GlobalOf(h, r) IN
    IF g = 0 THEN OnLocal(h, r, RawLocalCounter_unlock_upgradable(h.lc[r.id].access))
    ELSE OnGlobal(h, g, GlobalCounter_unlock_upgradable(h.gc[g].access))

try_shared_into_exclusive(h, r) ==
    LET g == GlobalOf(h, r) IN
    IF g = 0 THEN OnLocal(h, r, RawLocalCounter_try_shared_into_exclusive(h.lc[r.id].access))
    ELSE OnGlobal(h, g, GlobalCounter_try_shared_into_exclusive(h.gc[g].access))

count(h, r) ==
    LET g == GlobalOf(h, r) IN
    IF g = 0 THEN h.lc[r.id].counter ELSE h.gc[g].counter

bump(h, r) ==
    LET g == GlobalOf(h, r) IN
    IF g = 0 THEN [h EXCEPT !.lc[r.id].counter = RawLocalCounter_bump(@)]
    ELSE [h EXCEPT !.gc[g].counter = GlobalCounter_bump(@)]

\* GlobalGeneration::from_local: a fresh shared counter takes the count
\* (set_gen) and the lock state (inflict) of the local one
GlobalGeneration_from_local(h, rlc) ==
    LET g == h.gn + 1 IN
    [g |-> g,
     h |-> [h EXCEPT !.gn = g,
                     !.gc[g] = [access |-> AccessState_inflict(AccessState_new(rlc.access),
                                                                h.gc[g].access),
                                counter |-> GlobalCounter_set_gen(h.gc[g].counter,
                                                                  rlc.counter)]]]

\* fault variant: promotes without storing Global(res) back into the cell
LocalCounter_globalize_without_set(h, l) ==
    IF h.lc[l].tag = "Global" THEN [g |-> h.lc[l].g, h |-> h]
    ELSE GlobalGeneration_from_local(h, h.lc[l])

\* LocalCounter::globalize: memoized, the cell then holds Global(g)
LocalCounter_globalize(h, l) ==
    IF h.lc[l].tag = "Global" THEN [g |-> h.lc[l].g, h |-> h]
    ELSE LET x == GlobalGeneration_from_local(h, h.lc[l]) IN
         [g |-> x.g,
          h |-> [x.h EXCEPT !.lc[l] = [tag |-> "Global", access |-> 0,
                                       counter |-> 0, g |-> x.g]]]

\* globalize needs a shared counter to mint (the bound) unless memoized, and
\* AccessState::new panics on a lock word below -1
CanGlobalize(h, l) ==
    \/ h.lc[l].tag = "Global"
    \/ h.gn < NumGlobal /\ h.lc[l].access >= -1

\* fault variant: a retired counter is pushed like any other
LocalGeneration_free_retired(h, l) == [h EXCEPT !.fl = Append(@, l)]

\* LocalGeneration::free / GlobalGeneration::free: push unless the count is 0
LocalGeneration_free(h, l) ==
    IF count(h, LRef(l)) # 0 THEN [h EXCEPT !.fl = Append(@, l)] ELSE h

GlobalGeneration_free(h, g) ==
    IF count(h, GRef(g)) # 0 THEN [h EXCEPT !.gfl = Append(@, g)] ELSE h

LocalOrGlobalGeneration_free(h, r) ==
    IF r.kind = "L" THEN LocalGeneration_free(h, r.id) ELSE GlobalGeneration_free(h, r.id)

\* fault variant: mints while the arena has room, recycles only after that
LocalGeneration_new_fresh_first(h) ==
    IF h.nf < NumLocal
    THEN [l |-> h.nf + 1, fresh |-> TRUE, h |-> [h EXCEPT !.nf = @ + 1]]
    ELSE [l |-> h.fl[Len(h.fl)], fresh |-> FALSE,
          h |-> [h EXCEPT !.fl = SubSeq(@, 1, Len(@) - 1)]]

\* LocalGeneration::new: re_use (Vec::pop) or else fresh
LocalGeneration_new(h) ==
    IF Len(h.fl) > 0
    THEN [l |-> h.fl[Len(h.fl)], fresh |-> FALSE,
          h |-> [h EXCEPT !.fl = SubSeq(@, 1, Len(@) - 1)]]
    ELSE [l |-> h.nf + 1, fresh |-> TRUE, h |-> [h EXCEPT !.nf = @ + 1]]

\* fresh() can mint while the arena's bound allows
CanNew(h) == Len(h.fl) > 0 \/ h.nf < NumLocal

\* fault variant: hands out the top of the global free list and leaves it there
GlobalGeneration_re_use_without_pop(h) ==
    IF Len(h.gfl) > 0 THEN [g |-> h.gfl[Len(h.gfl)], h |-> h] ELSE [g |-> 0, h |-> h]

\* GlobalGeneration::re_use: FREE_LIST.lock().pop(); g = 0 stands for None
GlobalGeneration_re_use(h) ==
    IF Len(h.gfl) > 0
    THEN [g |-> h.gfl[Len(h.gfl)], h |-> [h EXCEPT !.gfl = SubSeq(@, 1, Len(@) - 1)]]
    ELSE [g |-> 0, h |-> h]

\* GlobalGeneration::fresh: under FRESH_LIST.lock(), the next counter of the
\* leaked batches (a new batch is minted when the slice is used up)
GlobalGeneration_fresh(h) == [g |-> h.gn + 1, h |-> [h EXCEPT !.gn = @ + 1]]

\* ------------------------------------------------------ the handle layer (lib.rs)
\* r is the reference of the handle's RawRef (generation()), v the count cached
\* in it (validity()).  Each call returns [ok, h]; where a call may destruct or
\* move out the payload, ok says that it did.

\* fault variant: takes the payload without bumping the count
Strong_try_take_without_bump(h, r) ==
    LET x == try_lock_exclusive(h, r) IN
    IF x.ok
    THEN [ok |-> TRUE, h |-> LocalOrGlobalGeneration_free(unlock_exclusive(x.h, r).h, r)]
    ELSE [ok |-> FALSE, h |-> x.h]

Strong_try_take(h, r) ==
    LET x == try_lock_exclusive(h, r) IN
    IF x.ok
    THEN [ok |-> TRUE,
          h |-> LocalOrGlobalGeneration_free(unlock_exclusive(bump(x.h, r), r).h, r)]
    ELSE [ok |-> FALSE, h |-> x.h]

Strong_try_read(h, r) == try_lock_shared(h, r)

Strong_try_write(h, r) == try_lock_exclusive(h, r)

Strong_drop(h, r) ==
    LET x == try_lock_exclusive(bump(h, r), r) IN
    IF x.ok
    THEN [ok |-> TRUE, h |-> LocalOrGlobalGeneration_free(unlock_exclusive(x.h, r).h, r)]
    ELSE [ok |-> FALSE, h |-> x.h]

Weak_is_valid(h, r, v) == v = count(h, r)

Weak_try_read(h, r, v) ==
    IF ~Weak_is_valid(h, r, v) THEN [ok |-> FALSE, h |-> h]
    ELSE LET x == try_lock_shared(h, r) IN
         IF ~x.ok THEN [ok |-> FALSE, h |-> x.h]
         ELSE IF Weak_is_valid(x.h, r, v) THEN [ok |-> TRUE, h |-> x.h]
         ELSE [ok |-> FALSE, h |-> unlock_shared(x.h, r).h]

Weak_try_write(h, r, v) ==
    IF ~Weak_is_valid(h, r, v) THEN [ok |-> FALSE, h |-> h]
    ELSE LET x == try_lock_exclusive(h, r) IN
         IF ~x.ok THEN [ok |-> FALSE, h |-> x.h]
         ELSE IF Weak_is_valid(x.h, r, v) THEN [ok |-> TRUE, h |-> x.h]
         ELSE [ok |-> FALSE, h |-> unlock_exclusive(x.h, r).h]

\* ok = FALSE is the panic of Reading::clone
Reading_clone(h, r) == try_lock_shared(h, r)

\* fault variant: a Reading that only unlocks, whatever the count says
Reading_drop_unlock_only(h, r, v) == [ok |-> FALSE, h |-> unlock_shared(h, r).h]

Reading_drop(h, r, v) ==
    LET x == IF v # count(h, r) THEN try_shared_into_exclusive(h, r)
             ELSE [ok |-> FALSE, h |-> h] IN
    IF x.ok
    THEN [ok |-> TRUE, h |-> LocalOrGlobalGeneration_free(unlock_exclusive(x.h, r).h, r)]
    ELSE [ok |-> FALSE, h |-> unlock_shared(x.h, r).h]

\* fault variant: the Writing guard goes without unlocking
Writing_drop_without_unlock(h, r, v) == [ok |-> FALSE, h |-> h]

Writing_drop(h, r, v) ==
    IF v # count(h, r)
    THEN [ok |-> TRUE, h |-> LocalOrGlobalGeneration_free(unlock_exclusive(h, r).h, r)]
    ELSE [ok |-> FALSE, h |-> unlock_exclusive(h, r).h]

\* the abstract lock state of the counter behind r, as AccessState describes it
AccessStateOf(h, r) ==
    LET g == GlobalOf(h, r) IN
    IF g = 0 THEN AccessState_new(h.lc[r.id].access)
    ELSE LET s == h.gc[g].access IN
         IF s.writer THEN [kind |-> "Writer", normal |-> 0, upgrade |-> FALSE]
         ELSE IF s.readers = 0 /\ ~s.upgradable
              THEN [kind |-> "None", normal |-> 0, upgrade |-> FALSE]
              ELSE [kind |-> "Readers", normal |-> s.readers, upgrade |-> s.upgradable]

\* ---- the arenas that mint counters (old2/arena.rs, counter.rs 25-106)
\* A batch is a slice of counters made by one constructor: len counters, each
\* created as fill.  A counter is named by its batch number and its index; out
\* is the log of the counters an arena has handed out, res the last of them
\* with the value it held and the thread that asked.

\* the first batch of an arena (512 in old2/arena.rs, 32 in counter.rs)
FirstChunk == 2
\* old2/arena.rs:18, (16 * 1024 * 1024) / size_of::<usize>() in the source
MAX_CHUNK == 4
\* batches one arena mints in a run
MaxBatches == 3

Max(a, b) == IF a >= b THEN a ELSE b
Min(a, b) == IF a <= b THEN a ELSE b

CounterArena_grow_capped(n) == Min(n + n \div 2, MAX_CHUNK)

\* CounterArena::grow
CounterArena_grow(n) == Max(n + n \div 2, MAX_CHUNK)

\* ThreadArena::reserve: vec![Cell::new(0); sz]
ThreadArena_reserve(sz) == [len |-> sz, fill |-> 0]

\* StaticArena::reserve: sz times AtomicUsize::new(counters::INIT)
StaticArena_reserve(sz) == [len |-> sz, fill |-> COUNTER_INIT]

\* ThreadArena::new, StaticArena::new and the statics of counter.rs 47-51, 144
InitArenas ==
    [thread |-> [baggage |-> <<>>, current |-> ThreadArena_reserve(FirstChunk), index |-> 0],
     static |-> [leaked |-> <<StaticArena_reserve(FirstChunk)>>, pool |-> [b |-> 1, pos |-> 0],
                 next_alloc |-> FirstChunk + FirstChunk \div 2],
     lfresh |-> [leaked |-> <<>>, fresh |-> [len |-> FirstChunk, fill |-> RawLocalCounter_new],
                 next |-> 0, allocated |-> 0],
     gfresh |-> [n |-> FirstChunk, leaked |-> <<>>, slice |-> [b |-> 0, pos |-> 0],
                 allocated |-> 0],
     out |-> [k \in {"thread", "static", "lfresh", "gfresh"} |-> <<>>],
     res |-> [k |-> "none", b |-> 0, i |-> 0, v |-> 0, by |-> 0]]

\* ThreadArena::allocate: the result is [a: the arena afterwards, b, i: the
\* counter returned, v: the value it holds]
ThreadArena_allocate(a) ==
    IF a.index < a.current.len
    THEN [a |-> [a EXCEPT !.index = @ + 1],
          b |-> Len(a.baggage) + 1, i |-> a.index, v |-> a.current.fill]
    ELSE LET next == ThreadArena_reserve(CounterArena_grow(a.current.len)) IN
         [a |-> [baggage |-> Append(a.baggage, a.current), current |-> next, index |-> 1],
          b |-> Len(a.baggage) + 2, i |-> 0, v |-> next.fill]

\* StaticArena::allocate: pool is an iterator into the last leaked slice
StaticArena_allocate(a) ==
    IF a.pool.pos < a.leaked[a.pool.b].len
    THEN [a |-> [a EXCEPT !.pool.pos = @ + 1],
          b |-> a.pool.b, i |-> a.pool.pos, v |-> a.leaked[a.pool.b].fill]
    ELSE LET next == StaticArena_reserve(a.next_alloc) IN
         [a |-> [leaked |-> Append(a.leaked, next),
                 pool |-> [b |-> Len(a.leaked) + 1, pos |-> 1],
                 next_alloc |-> Max(MAX_CHUNK, a.next_alloc + a.next_alloc \div 2)],
          b |-> Len(a.leaked) + 1, i |-> 0, v |-> next.fill]

LocalGeneration_fresh_again(a) ==
    [a |-> a, b |-> Len(a.leaked) + 1, i |-> Max(a.next - 1, 0), v |-> a.fresh.fill]

\* LocalGeneration::fresh (counter.rs 25-42)
LocalGeneration_fresh(a) ==
    LET mint == a.next = a.fresh.len
        sz == a.next + a.next \div 2
        m == IF mint
             THEN [leaked |-> Append(a.leaked, a.fresh),
                   fresh |-> [len |-> sz, fill |-> RawLocalCounter_new],
                   next |-> 0, allocated |-> a.allocated + sz]
             ELSE a
    IN  [a |-> [m EXCEPT !.next = @ + 1],
         b |-> Len(m.leaked) + 1, i |-> m.next, v |-> m.fresh.fill]

\* GlobalGeneration::fresh (counter.rs 89-106), the whole call under
\* FRESH_LIST.lock(); slice is fresh.1, the rest of the last leaked batch
GlobalGeneration_fresh_slice(a) ==
    LET mint == a.slice.b = 0 \/ a.slice.pos = a.leaked[a.slice.b].len
        m == IF mint
             THEN [n |-> a.n + a.n \div 2,
                   leaked |-> Append(a.leaked, [len |-> a.n, fill |-> GlobalCounter_new]),
                   slice |-> [b |-> Len(a.leaked) + 1, pos |-> 0],
                   allocated |-> a.allocated + a.n]
             ELSE a
    IN  [a |-> [m EXCEPT !.slice.pos = @ + 1],
         b |-> m.slice.b, i |-> m.slice.pos, v |-> m.leaked[m.slice.b].fill]

\* ============================================================ initial state
\* Every counter of the arenas is as LocalCounter::new / GlobalCounter::new
\* make it; nothing is minted, allocated or locked.

InitCounters ==
    /\ cell = [l \in Locals |-> RawLocalCounter_new]
    /\ gcell = [g \in Globals |-> GlobalCounter_new]
    /\ nextFresh = 0
    /\ gNextFresh = 0
    /\ freeList = <<>>
    /\ gFreeList = <<>>

InitHandles ==
    /\ strong = [p \in Allocs |-> "unborn"]
    /\ genptr = [p \in Allocs |-> 0]
    /\ genref = [p \in Allocs |-> 0]
    /\ readings = [p \in Allocs |-> 0]
    /\ writing = [p \in Allocs |-> 0]
    /\ payload = [p \in Allocs |-> "none"]

InitRaw ==
    /\ held = {}
    /\ hShared = [l \in Locals |-> 0]
    /\ hUpgr = [l \in Locals |-> 0]
    /\ hExcl = [l \in Locals |-> 0]
    /\ maxHeld = 0

InitPool ==
    /\ tHeld = [t \in Threads |-> {}]
    /\ tFreeing = [t \in Threads |-> 0]

\* every Strong::new is passed InitialValue, as in the tests
InitValues ==
    /\ box = [p \in Allocs |-> InitialValue]

Slots == 1 .. LatchSlots
\* GenerationLayout::of::<T>() of two payload types whose Generation<T> differ
\* in size; the free lists treat every layout alike
Layouts == {"Generation<u8>", "Generation<u64>"}
\* usize::MAX
GenMax == GenModulus - 1

\* LOCAL_POOL of a thread as its initializer leaves it (old/allocator.rs 73-78)
LocalPoolInit ==
    [owned |-> {}, guards |-> 0, dropq |-> <<>>,
     lfl |-> [L \in Layouts |-> <<>>], rq |-> [L \in Layouts |-> RequestInit]]

\* no slot minted, LOCAL_POOL and GLOBAL_POOL as their initializers leave them;
\* other is the LOCAL_POOL of the second thread of SpecLatch
EmptyPools(variant) ==
    [variant |-> variant, minted |-> 0,
     layout |-> [s \in Slots |-> "none"], cur |-> [s \in Slots |-> "none"],
     gen |-> [s \in Slots |-> 0], weak |-> [ptr |-> 0, gen |-> 0],
     data |-> [s \in Slots |-> "none"], drops |-> [s \in Slots |-> 0],
     holds |-> [s \in Slots |-> 0],
     owned |-> {}, guards |-> 0, dropq |-> <<>>,
     lfl |-> [L \in Layouts |-> <<>>], gfl |-> [L \in Layouts |-> <<>>],
     rq |-> [L \in Layouts |-> RequestInit], other |-> LocalPoolInit]

InitLedger == ledger = [l \in Locals |-> 0]

InitAlloc == pools = EmptyPools("old/allocator.rs") /\ arena = InitArenas /\ InitLedger

InitShared ==
    /\ pc = [t \in Threads |-> "idle"]
    /\ tReadings = [t \in Threads |-> 0]
    /\ tWriting = [t \in Threads |-> 0]
    /\ sStrong = "none"
    /\ sDestructed = 0

Init ==
    /\ InitCounters
    /\ InitHandles
    /\ InitRaw
    /\ InitShared
    /\ InitPool
    /\ InitValues
    /\ InitAlloc
    /\ last = [op |-> "init", ok |-> TRUE]

\* ================================================ Spec: the handle layer, one thread

\* the Reading guards outstanding on the allocations 1..n
RECURSIVE ReadingsOut(_)
ReadingsOut(n) == IF n = 0 THEN 0 ELSE readings[n] + ReadingsOut(n - 1)

Ref(p) == LRef(genptr[p])

\* Box::from_raw on the payload pointer: the Box is dropped or moved out
Consumed(old, how) == IF old = "live" THEN how ELSE "twice"

Returned(op, ok) == last' = [op |-> op, ok |-> ok]

\* Strong::new (From<Box<T>>): LocalGeneration::new(), genref = genptr.count()
StrongNew(p) ==
    /\ strong[p] = "unborn"
    /\ \A q \in Allocs : q < p => strong[q] # "unborn"
    /\ CanNew(Heap)
    /\ LET n == LocalGeneration_new(Heap) IN
       /\ SetHeap(n.h)
       /\ genptr' = [genptr EXCEPT ![p] = n.l]
       /\ genref' = [genref EXCEPT ![p] = count(n.h, LRef(n.l))]
    /\ strong' = [strong EXCEPT ![p] = "alive"]
    /\ payload' = [payload EXCEPT ![p] = "live"]
    /\ Returned("new", TRUE)
    /\ UNCHANGED <<readings, writing, rawVars, sharedVars, poolVars, valueVars, allocVars>>

\* Strong::alias copies the RawRef: a Weak of p is the pair Ref(p), genref[p],
\* which never changes, so the Weak operations below stand for a Weak made
\* by an alias() call at any time of the Strong's life
StrongAlias(p) ==
    /\ strong[p] = "alive"
    /\ Returned("alias", TRUE)
    /\ UNCHANGED <<counterVars, strong, genptr, genref, readings, writing, payload,
                   rawVars, sharedVars, poolVars, valueVars, allocVars>>

StrongTryRead(p) ==
    /\ strong[p] = "alive"
    /\ ReadingsOut(MaxAllocs) < MaxReaders
    /\ LET x == Strong_try_read(Heap, Ref(p)) IN
       /\ SetHeap(x.h)
       /\ readings' = [readings EXCEPT ![p] = IF x.ok THEN @ + 1 ELSE @]
       /\ Returned("Strong::try_read", x.ok)
    /\ UNCHANGED <<strong, genptr, genref, writing, payload, rawVars, sharedVars, poolVars, valueVars, allocVars>>

StrongTryWrite(p) ==
    /\ strong[p] = "alive"
    /\ LET x == Strong_try_write(Heap, Ref(p)) IN
       /\ SetHeap(x.h)
       /\ writing' = [writing EXCEPT ![p] = IF x.ok THEN @ + 1 ELSE @]
       /\ Returned("Strong::try_write", x.ok)
    /\ UNCHANGED <<strong, genptr, genref, readings, payload, rawVars, sharedVars, poolVars, valueVars, allocVars>>

\* Ok(Box) moves the payload out and consumes the Strong; Err(self) keeps it
StrongTryTake(p) ==
    /\ strong[p] = "alive"
    /\ LET x == Strong_try_take(Heap, Ref(p)) IN
       /\ SetHeap(x.h)
       /\ strong' = [strong EXCEPT ![p] = IF x.ok THEN "gone" ELSE @]
       /\ payload' = [payload EXCEPT ![p] = IF x.ok THEN Consumed(@, "taken") ELSE @]
       /\ Returned("try_take", x.ok)
    /\ UNCHANGED <<genptr, genref, readings, writing, rawVars, sharedVars, poolVars, valueVars, allocVars>>

StrongDrop(p) ==
    /\ strong[p] = "alive"
    /\ LET x == Strong_drop(Heap, Ref(p)) IN
       /\ SetHeap(x.h)
       /\ payload' = [payload EXCEPT ![p] = IF x.ok THEN Consumed(@, "dropped") ELSE @]
       /\ Returned("Strong::drop", x.ok)
    /\ strong' = [strong EXCEPT ![p] = "gone"]
    /\ UNCHANGED <<genptr, genref, readings, writing, rawVars, sharedVars, poolVars, valueVars, allocVars>>

WeakTryRead(p) ==
    /\ strong[p] # "unborn"
    /\ ReadingsOut(MaxAllocs) < MaxReaders
    /\ LET x == Weak_try_read(Heap, Ref(p), genref[p]) IN
       /\ SetHeap(x.h)
       /\ readings' = [readings EXCEPT ![p] = IF x.ok THEN @ + 1 ELSE @]
       /\ Returned("Weak::try_read", x.ok)
    /\ UNCHANGED <<strong, genptr, genref, writing, payload, rawVars, sharedVars, poolVars, valueVars, allocVars>>

WeakTryWrite(p) ==
    /\ strong[p] # "unborn"
    /\ LET x == Weak_try_write(Heap, Ref(p), genref[p]) IN
       /\ SetHeap(x.h)
       /\ writing' = [writing EXCEPT ![p] = IF x.ok THEN @ + 1 ELSE @]
       /\ Returned("Weak::try_write", x.ok)
    /\ UNCHANGED <<strong, genptr, genref, readings, payload, rawVars, sharedVars, poolVars, valueVars, allocVars>>

\* Weak::share: make_sharable globalizes the counter; the Weak is Copy and
\* stays behind with its local reference, the Sharing leaves the thread
WeakShare(p) ==
    /\ strong[p] # "unborn"
    /\ CanGlobalize(Heap, genptr[p])
    /\ SetHeap(LocalCounter_globalize(Heap, genptr[p]).h)
    /\ Returned("share", TRUE)
    /\ UNCHANGED <<handleVars, rawVars, sharedVars, poolVars, valueVars, allocVars>>

ReadingClone(p) ==
    /\ readings[p] >= 1
    /\ ReadingsOut(MaxAllocs) < MaxReaders
    /\ LET x == Reading_clone(Heap, Ref(p)) IN
       /\ SetHeap(x.h)
       /\ readings' = [readings EXCEPT ![p] = IF x.ok THEN @ + 1 ELSE @]
       /\ Returned("clone", x.ok)
    /\ UNCHANGED <<strong, genptr, genref, writing, payload, rawVars, sharedVars, poolVars, valueVars, allocVars>>

ReadingDrop(p) ==
    /\ readings[p] >= 1
    /\ LET x == Reading_drop(Heap, Ref(p), genref[p]) IN
       /\ SetHeap(x.h)
       /\ payload' = [payload EXCEPT ![p] = IF x.ok THEN Consumed(@, "dropped") ELSE @]
       /\ Returned("Reading::drop", x.ok)
    /\ readings' = [readings EXCEPT ![p] = @ - 1]
    /\ UNCHANGED <<strong, genptr, genref, writing, rawVars, sharedVars, poolVars, valueVars, allocVars>>

WritingDrop(p) ==
    /\ writing[p] >= 1
    /\ LET x == Writing_drop(Heap, Ref(p), genref[p]) IN
       /\ SetHeap(x.h)
       /\ payload' = [payload EXCEPT ![p] = IF x.ok THEN Consumed(@, "dropped") ELSE @]
       /\ Returned("Writing::drop", x.ok)
    /\ writing' = [writing EXCEPT ![p] = @ - 1]
    /\ UNCHANGED <<strong, genptr, genref, readings, rawVars, sharedVars, poolVars, valueVars, allocVars>>

Next ==
    \E p \in Allocs :
        \/ StrongNew(p)
        \/ StrongAlias(p)
        \/ StrongTryRead(p)
        \/ StrongTryWrite(p)
        \/ StrongTryTake(p)
        \/ StrongDrop(p)
        \/ WeakTryRead(p)
        \/ WeakTryWrite(p)
        \/ WeakShare(p)
        \/ ReadingClone(p)
        \/ ReadingDrop(p)
        \/ WritingDrop(p)

Spec == Init /\ [][Next]_vars

\* ====== SpecHandles: Spec without promotion (no share): the thread-confined handles
NextHandles ==
    \E p \in Allocs :
        \/ StrongNew(p)
        \/ StrongAlias(p)
        \/ StrongTryRead(p)
        \/ StrongTryWrite(p)
        \/ StrongTryTake(p)
        \/ StrongDrop(p)
        \/ WeakTryRead(p)
        \/ WeakTryWrite(p)
        \/ ReadingClone(p)
        \/ ReadingDrop(p)
        \/ WritingDrop(p)

SpecHandles == Init /\ [][NextHandles]_vars

\* ============ SpecValues: Spec with stores through the Writing guard (lib.rs 323-326)
\* *w = v through DerefMut writes the Box behind the guard's pointer.  A guard
\* whose payload has been destructed points at freed memory: the store is
\* undefined behaviour and may land in any Box.
WritingStore(p, v) ==
    /\ writing[p] >= 1
    /\ IF payload[p] = "live"
       THEN box' = [box EXCEPT ![p] = v]
       ELSE box' \in [Allocs -> Values]
    /\ Returned("store", payload[p] = "live")
    /\ UNCHANGED <<counterVars, handleVars, rawVars, sharedVars, poolVars, allocVars>>

NextValues ==
    \/ Next
    \/ \E p \in Allocs, v \in Values : WritingStore(p, v)

SpecValues == Init /\ [][NextValues]_vars

\* ================================ SpecRaw: the counter API used directly, one thread
\* As tests.rs uses it: counters come from LocalGeneration::new() and go back
\* with LocalGeneration::free(); the unsafe calls (unlock_*, downgrade,
\* try_upgrade, try_shared_into_exclusive) are made only by a caller holding
\* the lock they give up, and a counter is freed with no lock held.

Unlocked(l) == hShared[l] = 0 /\ hUpgr[l] = 0 /\ hExcl[l] = 0

RawNew ==
    /\ CanNew(Heap)
    /\ LET n == LocalGeneration_new(Heap) IN
       /\ SetHeap(n.h)
       /\ held' = held \cup {n.l}
       /\ maxHeld' = IF Cardinality(held) + 1 > maxHeld THEN Cardinality(held) + 1
                     ELSE maxHeld
       /\ Returned("new", ~n.fresh)
    /\ UNCHANGED <<hShared, hUpgr, hExcl, handleVars, sharedVars, poolVars, valueVars, allocVars>>

RawFree(l) ==
    /\ l \in held
    /\ Unlocked(l)
    /\ SetHeap(LocalGeneration_free(Heap, l))
    /\ held' = held \ {l}
    /\ Returned("free", TRUE)
    /\ UNCHANGED <<hShared, hUpgr, hExcl, maxHeld, handleVars, sharedVars, poolVars, valueVars, allocVars>>

RawTryLockShared(l) ==
    /\ l \in held
    /\ hShared[l] < MaxReaders
    /\ LET x == try_lock_shared(Heap, LRef(l)) IN
       /\ SetHeap(x.h)
       /\ hShared' = [hShared EXCEPT ![l] = IF x.ok THEN @ + 1 ELSE @]
       /\ Returned("try_lock_shared", x.ok)
    /\ UNCHANGED <<held, hUpgr, hExcl, maxHeld, handleVars, sharedVars, poolVars, valueVars, allocVars>>

RawTryLockExclusive(l) ==
    /\ l \in held
    /\ LET x == try_lock_exclusive(Heap, LRef(l)) IN
       /\ SetHeap(x.h)
       /\ hExcl' = [hExcl EXCEPT ![l] = IF x.ok THEN @ + 1 ELSE @]
       /\ Returned("try_lock_exclusive", x.ok)
    /\ UNCHANGED <<held, hShared, hUpgr, maxHeld, handleVars, sharedVars, poolVars, valueVars, allocVars>>

RawTryLockUpgradable(l) ==
    /\ l \in held
    /\ LET x == try_lock_upgradable(Heap, LRef(l)) IN
       /\ SetHeap(x.h)
       /\ hUpgr' = [hUpgr EXCEPT ![l] = IF x.ok THEN @ + 1 ELSE @]
       /\ Returned("try_lock_upgradable", x.ok)
    /\ UNCHANGED <<held, hShared, hExcl, maxHeld, handleVars, sharedVars, poolVars, valueVars, allocVars>>

RawTryUpgrade(l) ==
    /\ l \in held
    /\ hUpgr[l] >= 1
    /\ LET x == try_upgrade(Heap, LRef(l)) IN
       /\ SetHeap(x.h)
       /\ hUpgr' = [hUpgr EXCEPT ![l] = IF x.ok THEN @ - 1 ELSE @]
       /\ hExcl' = [hExcl EXCEPT ![l] = IF x.ok THEN @ + 1 ELSE @]
       /\ Returned("try_upgrade", x.ok)
    /\ UNCHANGED <<held, hShared, maxHeld, handleVars, sharedVars, poolVars, valueVars, allocVars>>

RawTrySharedIntoExclusive(l) ==
    /\ l \in held
    /\ hShared[l] >= 1
    /\ LET x == try_shared_into_exclusive(Heap, LRef(l)) IN
       /\ SetHeap(x.h)
       /\ hShared' = [hShared EXCEPT ![l] = IF x.ok THEN @ - 1 ELSE @]
       /\ hExcl' = [hExcl EXCEPT ![l] = IF x.ok THEN @ + 1 ELSE @]
       /\ Returned("try_shared_into_exclusive", x.ok)
    /\ UNCHANGED <<held, hUpgr, maxHeld, handleVars, sharedVars, poolVars, valueVars, allocVars>>

RawDowngrade(l) ==
    /\ l \in held
    /\ hExcl[l] >= 1
    /\ hShared[l] < MaxReaders
    /\ SetHeap(downgrade(Heap, LRef(l)).h)
    /\ hExcl' = [hExcl EXCEPT ![l] = @ - 1]
    /\ hShared' = [hShared EXCEPT ![l] = @ + 1]
    /\ Returned("downgrade", TRUE)
    /\ UNCHANGED <<held, hUpgr, maxHeld, handleVars, sharedVars, poolVars, valueVars, allocVars>>

RawUnlockShared(l) ==
    /\ l \in held
    /\ hShared[l] >= 1
    /\ SetHeap(unlock_shared(Heap, LRef(l)).h)
    /\ hShared' = [hShared EXCEPT ![l] = @ - 1]
    /\ Returned("unlock_shared", TRUE)
    /\ UNCHANGED <<held, hUpgr, hExcl, maxHeld, handleVars, sharedVars, poolVars, valueVars, allocVars>>

RawUnlockUpgradable(l) ==
    /\ l \in held
    /\ hUpgr[l] >= 1
    /\ SetHeap(unlock_upgradable(Heap, LRef(l)).h)
    /\ hUpgr' = [hUpgr EXCEPT ![l] = @ - 1]
    /\ Returned("unlock_upgradable", TRUE)
    /\ UNCHANGED <<held, hShared, hExcl, maxHeld, handleVars, sharedVars, poolVars, valueVars, allocVars>>

RawUnlockExclusive(l) ==
    /\ l \in held
    /\ hExcl[l] >= 1
    /\ SetHeap(unlock_exclusive(Heap, LRef(l)).h)
    /\ hExcl' = [hExcl EXCEPT ![l] = @ - 1]
    /\ Returned("unlock_exclusive", TRUE)
    /\ UNCHANGED <<held, hShared, hUpgr, maxHeld, handleVars, sharedVars, poolVars, valueVars, allocVars>>

\* LocalGeneration::globalize; ok says that the call minted the shared counter
RawGlobalize(l) ==
    /\ l \in held
    /\ CanGlobalize(Heap, l)
    /\ SetHeap(LocalCounter_globalize(Heap, l).h)
    /\ Returned("globalize", cell[l].tag = "Local")
    /\ UNCHANGED <<rawVars, handleVars, sharedVars, poolVars, valueVars, allocVars>>

NextRaw ==
    \/ RawNew
    \/ \E l \in Locals :
        \/ RawFree(l)
        \/ RawTryLockShared(l)
        \/ RawTryLockExclusive(l)
        \/ RawTryLockUpgradable(l)
        \/ RawTryUpgrade(l)
        \/ RawTrySharedIntoExclusive(l)
        \/ RawDowngrade(l)
        \/ RawUnlockShared(l)
        \/ RawUnlockUpgradable(l)
        \/ RawUnlockExclusive(l)
        \/ RawGlobalize(l)

SpecRaw == Init /\ [][NextRaw]_vars

\* ====== SpecMisuse: SpecRaw with unlock calls made by a caller that holds no such lock
\* unlock_shared and unlock_exclusive are unsafe fns; here they are also called
\* on a thread-confined counter whose caller holds no shared, respectively no
\* exclusive, lock; the call is the first violation on that counter since its
\* lock word was last what the caller's locks make it.
\* ok: the call returned (did not panic).

\* the lock word of l is the one the locks its caller holds amount to
WordOfHeld(l) == IF hExcl[l] >= 1 THEN -1 ELSE 2 * hShared[l] + hUpgr[l]

RawUnlockSharedUnheld(l) ==
    /\ l \in held
    /\ cell[l].tag = "Local" /\ cell[l].access = WordOfHeld(l)
    /\ hShared[l] = 0
    /\ LET x == unlock_shared(Heap, LRef(l)) IN
       /\ SetHeap(x.h)
       /\ Returned("unlock_shared", x.ok)
    /\ UNCHANGED <<rawVars, handleVars, sharedVars, poolVars, valueVars, allocVars>>

RawUnlockExclusiveUnheld(l) ==
    /\ l \in held
    /\ cell[l].tag = "Local" /\ cell[l].access = WordOfHeld(l)
    /\ hExcl[l] = 0
    /\ LET x == unlock_exclusive(Heap, LRef(l)) IN
       /\ SetHeap(x.h)
       /\ Returned("unlock_exclusive", x.ok)
    /\ UNCHANGED <<rawVars, handleVars, sharedVars, poolVars, valueVars, allocVars>>

NextMisuse ==
    \/ NextRaw
    \/ \E l \in Locals :
        \/ RawUnlockSharedUnheld(l)
        \/ RawUnlockExclusiveUnheld(l)

SpecMisuse == Init /\ [][NextMisuse]_vars

\* ======================= SpecShared: handles of one shared allocation, several threads
\* The allocation was made by Strong::new and promoted (Strong::send,
\* Weak::share): its counter is the shared counter SharedCounter, minted by
\* from_local with the count at COUNTER_INIT and no lock held.  Thread Owner
\* has the Strong; every thread has a Weak (Sharing is Send, Weak is Copy).
\* Reading and Writing are not Send: a guard is dropped or cloned by the thread
\* that made it.  Each step is one atomic access to the counter (a load of the
\* count, bump's exchange, one RawRwLock call, the free list's push under its
\* mutex) together with the thread-local code around it.

SharedCounter == 1
Owner == 1
SRef == GRef(SharedCounter)
SValidity == COUNTER_INIT

InitSharedAlloc ==
    /\ cell = [l \in Locals |-> RawLocalCounter_new]
    /\ gcell = [g \in Globals |-> GlobalCounter_new]
    /\ nextFresh = 0
    /\ gNextFresh = SharedCounter
    /\ freeList = <<>>
    /\ gFreeList = <<>>
    /\ InitHandles
    /\ InitRaw
    /\ pc = [t \in Threads |-> "idle"]
    /\ tReadings = [t \in Threads |-> 0]
    /\ tWriting = [t \in Threads |-> 0]
    /\ sStrong = "alive"
    /\ sDestructed = 0
    /\ InitPool
    /\ InitValues
    /\ InitAlloc
    /\ last = [op |-> "init", ok |-> TRUE]

Goto(t, where) == pc' = [pc EXCEPT ![t] = where]

SGuards == <<tReadings, tWriting>>
SFrame == <<handleVars, rawVars, poolVars, valueVars, allocVars, last>>

\* ---- Strong::drop (lib.rs 118-127), by the owner
SDropBump(t) ==
    /\ t = Owner /\ pc[t] = "idle" /\ sStrong = "alive"
    /\ SetHeap(bump(Heap, SRef))
    /\ sStrong' = "gone"
    /\ Goto(t, "drop_lock")
    /\ UNCHANGED <<SGuards, sDestructed, SFrame>>

SDropLock(t) ==
    /\ pc[t] = "drop_lock"
    /\ LET x == try_lock_exclusive(Heap, SRef) IN
       /\ SetHeap(x.h)
       /\ Goto(t, IF x.ok THEN "box_unlock" ELSE "idle")
    /\ UNCHANGED <<SGuards, sStrong, sDestructed, SFrame>>

\* ---- the tail that Strong::drop, try_take, Reading::drop and Writing::drop
\* share once they hold the exclusive lock: the Box is dropped (or moved out),
\* unlock_exclusive, then LocalOrGlobalGeneration::free
SBoxUnlock(t) ==
    /\ pc[t] = "box_unlock"
    /\ sDestructed' = sDestructed + 1
    /\ SetHeap(unlock_exclusive(Heap, SRef).h)
    /\ Goto(t, "free")
    /\ UNCHANGED <<SGuards, sStrong, SFrame>>

SFree(t) ==
    /\ pc[t] = "free"
    /\ SetHeap(LocalOrGlobalGeneration_free(Heap, SRef))
    /\ Goto(t, "idle")
    /\ UNCHANGED <<SGuards, sStrong, sDestructed, SFrame>>

\* ---- Strong::try_take (lib.rs 45-60), by the owner
STakeLock(t) ==
    /\ t = Owner /\ pc[t] = "idle" /\ sStrong = "alive"
    /\ LET x == try_lock_exclusive(Heap, SRef) IN
       /\ SetHeap(x.h)
       /\ Goto(t, IF x.ok THEN "take_bump" ELSE "idle")
       /\ sStrong' = IF x.ok THEN "gone" ELSE sStrong
    /\ UNCHANGED <<SGuards, sDestructed, SFrame>>

STakeBump(t) ==
    /\ pc[t] = "take_bump"
    /\ SetHeap(bump(Heap, SRef))
    /\ Goto(t, "box_unlock")
    /\ UNCHANGED <<SGuards, sStrong, sDestructed, SFrame>>

\* ---- Strong::try_read / try_write (lib.rs 63-80), by the owner
SStrongTryRead(t) ==
    /\ t = Owner /\ pc[t] = "idle" /\ sStrong = "alive"
    /\ tReadings[t] < MaxReaders
    /\ LET x == Strong_try_read(Heap, SRef) IN
       /\ SetHeap(x.h)
       /\ tReadings' = [tReadings EXCEPT ![t] = IF x.ok THEN @ + 1 ELSE @]
    /\ UNCHANGED <<pc, tWriting, sStrong, sDestructed, SFrame>>

SStrongTryWrite(t) ==
    /\ t = Owner /\ pc[t] = "idle" /\ sStrong = "alive"
    /\ LET x == Strong_try_write(Heap, SRef) IN
       /\ SetHeap(x.h)
       /\ tWriting' = [tWriting EXCEPT ![t] = IF x.ok THEN @ + 1 ELSE @]
    /\ UNCHANGED <<pc, tReadings, sStrong, sDestructed, SFrame>>

\* ---- Weak::try_read (lib.rs 203-215)
SReadValid(t) ==
    /\ pc[t] = "idle"
    /\ tReadings[t] < MaxReaders
    /\ Goto(t, IF Weak_is_valid(Heap, SRef, SValidity) THEN "read_lock" ELSE "idle")
    /\ UNCHANGED <<counterVars, SGuards, sStrong, sDestructed, SFrame>>

SReadLock(t) ==
    /\ pc[t] = "read_lock"
    /\ LET x == try_lock_shared(Heap, SRef) IN
       /\ SetHeap(x.h)
       /\ Goto(t, IF x.ok THEN "read_recheck" ELSE "idle")
    /\ UNCHANGED <<SGuards, sStrong, sDestructed, SFrame>>

SReadRecheck(t) ==
    /\ pc[t] = "read_recheck"
    /\ IF Weak_is_valid(Heap, SRef, SValidity)
       THEN /\ tReadings' = [tReadings EXCEPT ![t] = @ + 1]
            /\ Goto(t, "idle")
       ELSE /\ Goto(t, "unlock_shared")
            /\ UNCHANGED tReadings
    /\ UNCHANGED <<counterVars, tWriting, sStrong, sDestructed, SFrame>>

\* unlock_shared: the last call of a failed Weak::try_read and of a
\* Reading::drop that does not destruct
SUnlockShared(t) ==
    /\ pc[t] = "unlock_shared"
    /\ SetHeap(unlock_shared(Heap, SRef).h)
    /\ Goto(t, "idle")
    /\ UNCHANGED <<SGuards, sStrong, sDestructed, SFrame>>

\* ---- Weak::try_write (lib.rs 218-230)
SWriteValid(t) ==
    /\ pc[t] = "idle"
    /\ Goto(t, IF Weak_is_valid(Heap, SRef, SValidity) THEN "write_lock" ELSE "idle")
    /\ UNCHANGED <<counterVars, SGuards, sStrong, sDestructed, SFrame>>

SWriteLock(t) ==
    /\ pc[t] = "write_lock"
    /\ LET x == try_lock_exclusive(Heap, SRef) IN
       /\ SetHeap(x.h)
       /\ Goto(t, IF x.ok THEN "write_recheck" ELSE "idle")
    /\ UNCHANGED <<SGuards, sStrong, sDestructed, SFrame>>

SWriteRecheck(t) ==
    /\ pc[t] = "write_recheck"
    /\ IF Weak_is_valid(Heap, SRef, SValidity)
       THEN /\ tWriting' = [tWriting EXCEPT ![t] = @ + 1]
            /\ Goto(t, "idle")
       ELSE /\ Goto(t, "unlock_exclusive")
            /\ UNCHANGED tWriting
    /\ UNCHANGED <<counterVars, tReadings, sStrong, sDestructed, SFrame>>

\* unlock_exclusive without a drop: a failed Weak::try_write, a Writing::drop
\* whose owner is alive
SUnlockExclusive(t) ==
    /\ pc[t] = "unlock_exclusive"
    /\ SetHeap(unlock_exclusive(Heap, SRef).h)
    /\ Goto(t, "idle")
    /\ UNCHANGED <<SGuards, sStrong, sDestructed, SFrame>>

\* ---- Reading::clone (lib.rs 287-293); "panic" is its panic!
SReadingClone(t) ==
    /\ pc[t] = "idle"
    /\ tReadings[t] >= 1 /\ tReadings[t] < MaxReaders
    /\ LET x == Reading_clone(Heap, SRef) IN
       /\ SetHeap(x.h)
       /\ tReadings' = [tReadings EXCEPT ![t] = IF x.ok THEN @ + 1 ELSE @]
       /\ Goto(t, IF x.ok THEN "idle" ELSE "panic")
    /\ UNCHANGED <<tWriting, sStrong, sDestructed, SFrame>>

\* ---- Reading::drop (lib.rs 298-310)
SReadingDropCount(t) ==
    /\ pc[t] = "idle"
    /\ tReadings[t] >= 1
    /\ tReadings' = [tReadings EXCEPT ![t] = @ - 1]
    /\ Goto(t, IF SValidity # count(Heap, SRef) THEN "sie_upgradable" ELSE "unlock_shared")
    /\ UNCHANGED <<counterVars, tWriting, sStrong, sDestructed, SFrame>>

\* GlobalCounter::try_shared_into_exclusive (counter.rs 534-547), call by call
SSieUpgradable(t) ==
    /\ pc[t] = "sie_upgradable"
    /\ LET x == GlobalCounter_try_lock_upgradable(gcell[SharedCounter].access) IN
       /\ gcell' = [gcell EXCEPT ![SharedCounter].access = x.st]
       /\ Goto(t, IF x.ok THEN "sie_unlock_shared" ELSE "unlock_shared")
    /\ UNCHANGED <<cell, nextFresh, gNextFresh, freeList, gFreeList,
                   SGuards, sStrong, sDestructed, SFrame>>

SSieUnlockShared(t) ==
    /\ pc[t] = "sie_unlock_shared"
    /\ gcell' = [gcell EXCEPT ![SharedCounter].access = GlobalCounter_unlock_shared(@).st]
    /\ Goto(t, "sie_upgrade")
    /\ UNCHANGED <<cell, nextFresh, gNextFresh, freeList, gFreeList,
                   SGuards, sStrong, sDestructed, SFrame>>

SSieUpgrade(t) ==
    /\ pc[t] = "sie_upgrade"
    /\ LET x == GlobalCounter_try_upgrade(gcell[SharedCounter].access) IN
       /\ gcell' = [gcell EXCEPT ![SharedCounter].access = x.st]
       /\ Goto(t, IF x.ok THEN "box_unlock" ELSE "sie_relock")
    /\ UNCHANGED <<cell, nextFresh, gNextFresh, freeList, gFreeList,
                   SGuards, sStrong, sDestructed, SFrame>>

SSieRelock(t) ==
    /\ pc[t] = "sie_relock"
    /\ LET x == GlobalCounter_try_lock_shared(gcell[SharedCounter].access) IN
       /\ gcell' = [gcell EXCEPT ![SharedCounter].access = x.st]
       /\ Goto(t, IF x.ok THEN "sie_unlock_upgradable" ELSE "panic")
    /\ UNCHANGED <<cell, nextFresh, gNextFresh, freeList, gFreeList,
                   SGuards, sStrong, sDestructed, SFrame>>

SSieUnlockUpgradable(t) ==
    /\ pc[t] = "sie_unlock_upgradable"
    /\ gcell' = [gcell EXCEPT ![SharedCounter].access = GlobalCounter_unlock_upgradable(@).st]
    /\ Goto(t, "unlock_shared")
    /\ UNCHANGED <<cell, nextFresh, gNextFresh, freeList, gFreeList,
                   SGuards, sStrong, sDestructed, SFrame>>

\* ---- Writing::drop (lib.rs 330-340)
SWritingDropCount(t) ==
    /\ pc[t] = "idle"
    /\ tWriting[t] >= 1
    /\ tWriting' = [tWriting EXCEPT ![t] = @ - 1]
    /\ Goto(t, IF SValidity # count(Heap, SRef) THEN "box_unlock" ELSE "unlock_exclusive")
    /\ UNCHANGED <<counterVars, tReadings, sStrong, sDestructed, SFrame>>

NextShared ==
    \E t \in Threads :
        \/ SDropBump(t)
        \/ SDropLock(t)
        \/ SBoxUnlock(t)
        \/ SFree(t)
        \/ STakeLock(t)
        \/ STakeBump(t)
        \/ SStrongTryRead(t)
        \/ SStrongTryWrite(t)
        \/ SReadValid(t)
        \/ SReadLock(t)
        \/ SReadRecheck(t)
        \/ SUnlockShared(t)
        \/ SWriteValid(t)
        \/ SWriteLock(t)
        \/ SWriteRecheck(t)
        \/ SUnlockExclusive(t)
        \/ SReadingClone(t)
        \/ SReadingDropCount(t)
        \/ SSieUpgradable(t)
        \/ SSieUnlockShared(t)
        \/ SSieUpgrade(t)
        \/ SSieRelock(t)
        \/ SSieUnlockUpgradable(t)
        \/ SWritingDropCount(t)

SpecShared == InitSharedAlloc /\ [][NextShared]_vars

\* ====== SpecSie: the lock calls made directly on one counter, step by step
\* The counter is either thread-confined (held = {1}: local counter 1, used by
\* thread Owner alone, every call one step) or shared (held = {}: the shared
\* counter SharedCounter, used by every thread, GlobalCounter's
\* try_shared_into_exclusive running one RawRwLock call per step).  tReadings
\* and tWriting are the shared and exclusive locks a thread's caller holds;
\* try_shared_into_exclusive is called only by a holder of a shared lock.

SieLocal == held # {}
SieRef == IF SieLocal THEN LRef(1) ELSE GRef(SharedCounter)
SieCallers == IF SieLocal THEN {Owner} ELSE Threads

InitSie ==
    /\ \/ held = {} /\ nextFresh = 0 /\ gNextFresh = SharedCounter
       \/ held = {1} /\ nextFresh = 1 /\ gNextFresh = 0
    /\ cell = [l \in Locals |-> RawLocalCounter_new]
    /\ gcell = [g \in Globals |-> GlobalCounter_new]
    /\ freeList = <<>>
    /\ gFreeList = <<>>
    /\ InitHandles
    /\ hShared = [l \in Locals |-> 0]
    /\ hUpgr = [l \in Locals |-> 0]
    /\ hExcl = [l \in Locals |-> 0]
    /\ maxHeld = 0
    /\ pc = [t \in Threads |-> "idle"]
    /\ tReadings = [t \in Threads |-> 0]
    /\ tWriting = [t \in Threads |-> 0]
    /\ sStrong = "none"
    /\ sDestructed = 0
    /\ InitPool
    /\ InitValues
    /\ InitAlloc
    /\ last = [op |-> "init", ok |-> TRUE]

CFrame == <<handleVars, rawVars, sStrong, sDestructed, poolVars, valueVars, allocVars>>

CTryLockShared(t) ==
    /\ t \in SieCallers /\ pc[t] = "idle"
    /\ tReadings[t] < MaxReaders
    /\ LET x == try_lock_shared(Heap, SieRef) IN
       /\ SetHeap(x.h)
       /\ tReadings' = [tReadings EXCEPT ![t] = IF x.ok THEN @ + 1 ELSE @]
       /\ Returned("try_lock_shared", x.ok)
    /\ UNCHANGED <<pc, tWriting, CFrame>>

CUnlockShared(t) ==
    /\ t \in SieCallers /\ pc[t] = "idle"
    /\ tReadings[t] >= 1
    /\ SetHeap(unlock_shared(Heap, SieRef).h)
    /\ tReadings' = [tReadings EXCEPT ![t] = @ - 1]
    /\ Returned("unlock_shared", TRUE)
    /\ UNCHANGED <<pc, tWriting, CFrame>>

CUnlockExclusive(t) ==
    /\ t \in SieCallers /\ pc[t] = "idle"
    /\ tWriting[t] >= 1
    /\ SetHeap(unlock_exclusive(Heap, SieRef).h)
    /\ tWriting' = [tWriting EXCEPT ![t] = @ - 1]
    /\ Returned("unlock_exclusive", TRUE)
    /\ UNCHANGED <<pc, tReadings, CFrame>>

\* try_shared_into_exclusive returns ok to thread t
SieReturn(t, ok) ==
    /\ Goto(t, "idle")
    /\ tReadings' = [tReadings EXCEPT ![t] = IF ok THEN @ - 1 ELSE @]
    /\ tWriting' = [tWriting EXCEPT ![t] = IF ok THEN @ + 1 ELSE @]
    /\ Returned("try_shared_into_exclusive", ok)

\* the call of thread t goes on at `where` with the RawRwLock as st
SieGoto(t, where, st) ==
    /\ Goto(t, where)
    /\ gcell' = [gcell EXCEPT ![SharedCounter].access = st]
    /\ UNCHANGED <<cell, nextFresh, gNextFresh, freeList, gFreeList, tReadings, tWriting, last>>

\* One step of try_shared_into_exclusive by thread t: the whole call on the
\* thread-confined counter; on the shared counter try_lock_upgradable, then
\* unlock_shared, then try_upgrade, then on failure try_lock_shared (panic!()
\* if refused) and unlock_upgradable.
CTrySharedIntoExclusive(t) ==
    /\ t \in SieCallers
    /\ UNCHANGED CFrame
    /\ LET s == gcell[SharedCounter].access IN
       CASE pc[t] = "idle" /\ SieLocal ->
               /\ tReadings[t] >= 1
               /\ LET x == try_shared_into_exclusive(Heap, SieRef) IN
                  SetHeap(x.h) /\ SieReturn(t, x.ok)
         [] pc[t] = "idle" /\ ~SieLocal ->
               /\ tReadings[t] >= 1
               /\ LET x == GlobalCounter_try_lock_upgradable(s) IN
                  IF x.ok THEN SieGoto(t, "sie_unlock_shared", x.st)
                  ELSE UNCHANGED counterVars /\ SieReturn(t, FALSE)
         [] pc[t] = "sie_unlock_shared" ->
               SieGoto(t, "sie_upgrade", GlobalCounter_unlock_shared(s).st)
         [] pc[t] = "sie_upgrade" ->
               LET x == GlobalCounter_try_upgrade(s) IN
               IF x.ok
               THEN /\ gcell' = [gcell EXCEPT ![SharedCounter].access = x.st]
                    /\ UNCHANGED <<cell, nextFresh, gNextFresh, freeList, gFreeList>>
                    /\ SieReturn(t, TRUE)
               ELSE SieGoto(t, "sie_relock", x.st)
         [] pc[t] = "sie_relock" ->
               LET x == GlobalCounter_try_lock_shared(s) IN
               SieGoto(t, IF x.ok THEN "sie_unlock_upgradable" ELSE "panic", x.st)
         [] pc[t] = "sie_unlock_upgradable" ->
               /\ gcell' = [gcell EXCEPT ![SharedCounter].access =
                                             GlobalCounter_unlock_upgradable(s).st]
               /\ UNCHANGED <<cell, nextFresh, gNextFresh, freeList, gFreeList>>
               /\ SieReturn(t, FALSE)
         [] OTHER -> FALSE

NextSie ==
    \E t \in Threads :
        \/ CTryLockShared(t)
        \/ CUnlockShared(t)
        \/ CUnlockExclusive(t)
        \/ CTrySharedIntoExclusive(t)

SpecSie == InitSie /\ [][NextSie]_vars

\* ============ SpecPool: the global counter pool, several threads (tests.rs 59-117)
\* Every thread runs allocate/free cycles with GlobalGeneration::new and
\* GlobalGeneration::free and holds at most MaxHold counters at a time.  new is
\* re_use().unwrap_or_else(fresh): two critical sections, of FREE_LIST and of
\* FRESH_LIST.  free loads the count and then pushes under FREE_LIST.

\* room for one counter more than NumThreads * MaxHold
PoolArena == NumThreads * MaxHold + 1
PoolCounters == 1 .. PoolArena

InitPoolThreads ==
    /\ cell = [l \in Locals |-> RawLocalCounter_new]
    /\ gcell = [g \in PoolCounters |-> GlobalCounter_new]
    /\ nextFresh = 0
    /\ gNextFresh = 0
    /\ freeList = <<>>
    /\ gFreeList = <<>>
    /\ InitHandles
    /\ InitRaw
    /\ InitShared
    /\ InitPool
    /\ InitValues
    /\ InitAlloc
    /\ last = [op |-> "init", ok |-> TRUE]

PFrame == <<handleVars, rawVars, tReadings, tWriting, sStrong, sDestructed, valueVars, allocVars>>

\* GlobalGeneration::new, first half: re_use
PoolReUse(t) ==
    /\ pc[t] = "idle" /\ Cardinality(tHeld[t]) < MaxHold
    /\ LET x == GlobalGeneration_re_use(Heap) IN
       /\ SetHeap(x.h)
       /\ Returned("re_use", x.g # 0)
       /\ IF x.g # 0
          THEN tHeld' = [tHeld EXCEPT ![t] = @ \cup {x.g}] /\ UNCHANGED pc
          ELSE Goto(t, "fresh") /\ UNCHANGED tHeld
    /\ UNCHANGED <<tFreeing, PFrame>>

\* GlobalGeneration::new, second half: fresh, after re_use returned None
PoolFresh(t) ==
    /\ pc[t] = "fresh" /\ gNextFresh < PoolArena
    /\ LET x == GlobalGeneration_fresh(Heap) IN
       /\ SetHeap(x.h)
       /\ tHeld' = [tHeld EXCEPT ![t] = @ \cup {x.g}]
    /\ Goto(t, "idle")
    /\ Returned("fresh", TRUE)
    /\ UNCHANGED <<tFreeing, PFrame>>

\* GlobalGeneration::free(this): the holder moves the counter into the call
PoolFreeCall(t, g) ==
    /\ pc[t] = "idle" /\ g \in tHeld[t]
    /\ tHeld' = [tHeld EXCEPT ![t] = @ \ {g}]
    /\ tFreeing' = [tFreeing EXCEPT ![t] = g]
    /\ Goto(t, "free")
    /\ Returned("free", TRUE)
    /\ UNCHANGED <<counterVars, PFrame>>

\* GlobalGeneration::free: this.count() is loaded first; a counter of count 0
\* is dropped without being pushed
PoolFreeCount(t) ==
    /\ pc[t] = "free"
    /\ IF count(Heap, GRef(tFreeing[t])) # 0
       THEN Goto(t, "free_push") /\ UNCHANGED tFreeing
       ELSE Goto(t, "idle") /\ tFreeing' = [tFreeing EXCEPT ![t] = 0]
    /\ Returned("count", count(Heap, GRef(tFreeing[t])) # 0)
    /\ UNCHANGED <<counterVars, tHeld, PFrame>>

\* GlobalGeneration::free: FREE_LIST.lock().push(this)
PoolFreePush(t) ==
    /\ pc[t] = "free_push"
    /\ SetHeap(GlobalGeneration_free(Heap, tFreeing[t]))
    /\ tFreeing' = [tFreeing EXCEPT ![t] = 0]
    /\ Goto(t, "idle")
    /\ Returned("push", TRUE)
    /\ UNCHANGED <<tHeld, PFrame>>

\* the thread's closure returns with nothing held; the test joins it
PoolJoin(t) ==
    /\ pc[t] = "idle" /\ tHeld[t] = {}
    /\ Goto(t, "done")
    /\ Returned("join", TRUE)
    /\ UNCHANGED <<counterVars, poolVars, PFrame>>

NextPool ==
    \E t \in Threads :
        \/ PoolReUse(t)
        \/ PoolFresh(t)
        \/ \E g \in PoolCounters : PoolFreeCall(t, g)
        \/ PoolFreeCount(t)
        \/ PoolFreePush(t)
        \/ PoolJoin(t)

SpecPool == InitPoolThreads /\ [][NextPool]_vars

\* ===== SpecAlloc, SpecAllocator: the layout-keyed pool allocator, one thread at a time
\* (old/allocator.rs and allocator.rs, generations.rs, the handles of pointers.rs)
\* pools is one record q:
\*   variant  "old/allocator.rs" or "allocator.rs"
\*   minted   slots 1 .. minted exist (Box::new of a Generation<T>, never freed)
\*   layout   per slot, the GenerationLayout it was minted with ("none": not minted)
\*   cur      per slot, the layout of the payload type it was last in use as
\*   gen      per slot, Generation::gen (usize, fetch_add wraps)
\*   weak     the Weak taken last by alias(): [ptr, gen], ptr = 0 for none
\*   data     per slot, "none", "live", "dropped" (destructor ran) or "taken"
\*   drops    per slot, destructor runs on the payload it was last given
\*   owned    the slots behind an Owned handle of the running thread
\*   guards   LocalFreeListPool::guards
\*   holds    per slot, the slot whose Owned the payload holds (it is dropped by
\*            the payload's destructor), or 0
\*   dropq    LocalFreeListPool::dropq, entries [s, ty]: slot and payload layout
\*   lfl, gfl per layout, the free list of the local and of the global pool
\*   rq       per layout, request_sizes (0 stands for None)

\* ---- generations.rs
\* Generation::is_end_of_life: generation() >= usize::MAX - 1
is_end_of_life(gen) == gen >= GenMax - 1

\* InUsePtr::invalidate: bump_generation, gen.fetch_add(1)
invalidate(q, s) == [q EXCEPT !.gen[s] = (@ + 1) % GenModulus]

\* InUsePtr::upcast_drop: upcast, invalidate, drop_data.  fp says that upcast
\* gave Some(FreePtr)
upcast_drop(q, s) ==
    [fp |-> ~is_end_of_life(q.gen[s]),
     q |-> [invalidate(q, s) EXCEPT !.data[s] = "dropped",
                                    !.drops[s] = IF @ < 2 THEN @ + 1 ELSE @]]

\* InUsePtr::upcast_drop_invalidated: upcast, drop_data
upcast_drop_invalidated(q, s) ==
    [fp |-> ~is_end_of_life(q.gen[s]),
     q |-> [q EXCEPT !.data[s] = "dropped", !.drops[s] = IF @ < 2 THEN @ + 1 ELSE @]]

\* InUsePtr::upcast_take: the end-of-life test, invalidate, take_data
upcast_take(q, s) ==
    [fp |-> ~is_end_of_life(q.gen[s]),
     q |-> [invalidate(q, s) EXCEPT !.data[s] = "taken"]]

\* ---- old/allocator.rs
is_safe(q) == q.guards = 0

\* free_now: invalidate, then free_now_unique: upcast_drop and, for Some(it),
\* free_directly onto the free list of GenerationLayout::of::<T>()
free_now(q, s) ==
    LET x == upcast_drop(invalidate(q, s), s) IN
    IF x.fp THEN [x.q EXCEPT !.lfl[q.cur[s]] = Append(@, s)] ELSE x.q

\* drop_later: invalidate, DropLater::new (which invalidates again), push
drop_later(q, s) ==
    [invalidate(invalidate(q, s), s) EXCEPT !.dropq = Append(@, [s |-> s, ty |-> q.cur[s]])]

\* DropLater::drop_it for each entry of the swapped-out queue, in order:
\* drop_function::<T> is upcast_drop_invalidated and free_list_of::<T>().push
RECURSIVE drop_it(_, _)
drop_it(q, dropq) ==
    IF dropq = <<>> THEN q
    ELSE LET e == Head(dropq)
             x == upcast_drop_invalidated(q, e.s) IN
         drop_it(IF x.fp THEN [x.q EXCEPT !.lfl[e.ty] = Append(@, e.s)] ELSE x.q,
                 Tail(dropq))

\* fault: the queue is purged whether or not guards are registered
purge_drop_queue_unguarded(q) ==
    IF q.dropq # <<>> THEN drop_it([q EXCEPT !.dropq = <<>>], q.dropq) ELSE q

\* purge_drop_queue: if is_safe() and the queue is not empty, the queue is
\* swapped out and every entry dropped
purge_drop_queue(q) ==
    IF is_safe(q) /\ q.dropq # <<>> THEN drop_it([q EXCEPT !.dropq = <<>>], q.dropq)
    ELSE q

deregister_guard(q) == purge_drop_queue([q EXCEPT !.guards = @ - 1])

reclaim(q, s) == IF is_safe(q) THEN free_now(q, s) ELSE drop_later(q, s)

\* fault variant: a request size of None is taken for the first size again
request_unlatched(q, L) ==
    LET s == IF q.rq[L] = 0 THEN RequestInit ELSE q.rq[L]
        vec == q.gfl[L]
        number == IF s < Len(vec) THEN s ELSE Len(vec)
        left == Len(vec) - number
        fl == q.lfl[L] \o SubSeq(vec, left + 1, Len(vec))
        next == IF left < s * 2 THEN left ELSE s * 2
        q1 == [q EXCEPT !.gfl[L] = SubSeq(vec, 1, left), !.rq[L] = next] IN
    IF fl = <<>> THEN [fp |-> 0, q |-> [q1 EXCEPT !.lfl[L] = fl]]
    ELSE [fp |-> fl[Len(fl)],
          q |-> [q1 EXCEPT !.lfl[L] = SubSeq(fl, 1, Len(fl) - 1)]]

\* request: None if the request size is None; else fulfill_request moves the
\* last min(s, len) slots of the global list to the local one and returns what
\* is left, the next size is min(left, s * 2) (0 is None), and the local list
\* is popped.  fp = 0 stands for None.
request(q, L) ==
    IF q.rq[L] = 0 THEN [fp |-> 0, q |-> q]
    ELSE LET vec == q.gfl[L]
             number == IF q.rq[L] < Len(vec) THEN q.rq[L] ELSE Len(vec)
             left == Len(vec) - number
             fl == q.lfl[L] \o SubSeq(vec, left + 1, Len(vec))
             next == IF left < q.rq[L] * 2 THEN left ELSE q.rq[L] * 2
             q1 == [q EXCEPT !.gfl[L] = SubSeq(vec, 1, left), !.rq[L] = next] IN
         IF fl = <<>> THEN [fp |-> 0, q |-> [q1 EXCEPT !.lfl[L] = fl]]
         ELSE [fp |-> fl[Len(fl)],
               q |-> [q1 EXCEPT !.lfl[L] = SubSeq(fl, 1, Len(fl) - 1)]]

\* fault: locate pops the local free list of any layout that has a slot
reallocate_any_layout(q, L) ==
    IF \E M \in Layouts : q.lfl[M] # <<>>
    THEN LET M == CHOOSE M \in Layouts : q.lfl[M] # <<>> IN
         [fp |-> q.lfl[M][Len(q.lfl[M])],
          q |-> [q EXCEPT !.lfl[M] = SubSeq(@, 1, Len(@) - 1)]]
    ELSE request(q, L)

\* reallocate: locate (pop of the local free list) or else request
reallocate(q, L) ==
    IF q.lfl[L] # <<>>
    THEN [fp |-> q.lfl[L][Len(q.lfl[L])],
          q |-> [q EXCEPT !.lfl[L] = SubSeq(@, 1, Len(@) - 1)]]
    ELSE request(q, L)

\* free_and_take_unchecked: invalidate, upcast_take, free_directly for Some
free_and_take_unchecked(q, s) ==
    LET x == upcast_take(invalidate(q, s), s) IN
    IF x.fp THEN [x.q EXCEPT !.lfl[q.cur[s]] = Append(@, s)] ELSE x.q

\* free_and_take: None while guards_exist()
free_and_take(q, s) ==
    IF ~is_safe(q) THEN [ok |-> FALSE, q |-> q]
    ELSE [ok |-> TRUE, q |-> free_and_take_unchecked(q, s)]

\* fault: the local free lists are not drained into the global pool
LocalFreeListPool_drop_without_drain(q) ==
    [ok |-> TRUE, q |-> purge_drop_queue([q EXCEPT !.guards = 0])]

\* Drop for LocalFreeListPool: guards.set(0), purge, every local free list is
\* appended to the global one of its layout.  ok: did not panic.
LocalFreeListPool_drop(q) ==
    LET q1 == purge_drop_queue([q EXCEPT !.guards = 0]) IN
    [ok |-> TRUE,
     q |-> [q1 EXCEPT !.gfl = [L \in Layouts |-> q1.gfl[L] \o q1.lfl[L]],
                      !.lfl = [L \in Layouts |-> <<>>]]]

\* ---- allocator.rs
Allocator_is_safe(q) == q.guards > 0

\* purge_drop_queue: drop_function pushes each entry whose upcast gives Some
RECURSIVE Allocator_drop_it(_, _)
Allocator_drop_it(q, dropq) ==
    IF dropq = <<>> THEN q
    ELSE LET e == Head(dropq) IN
         Allocator_drop_it(IF ~is_end_of_life(q.gen[e.s])
                           THEN [q EXCEPT !.lfl[e.ty] = Append(@, e.s)] ELSE q,
                           Tail(dropq))

Allocator_purge_drop_queue(q) ==
    IF Allocator_is_safe(q) /\ q.dropq # <<>>
    THEN Allocator_drop_it([q EXCEPT !.dropq = <<>>], q.dropq)
    ELSE q

Allocator_deregister_guard(q) == Allocator_purge_drop_queue([q EXCEPT !.guards = @ - 1])

\* reclaim: free_now (upcast, then free pushes) if is_safe(), else drop_later
Allocator_reclaim(q, s) ==
    IF Allocator_is_safe(q)
    THEN IF ~is_end_of_life(q.gen[s])
         THEN [q EXCEPT !.lfl[q.cur[s]] = Append(@, s)] ELSE q
    ELSE [q EXCEPT !.dropq = Append(@, [s |-> s, ty |-> q.cur[s]])]

\* try_free_and_take: None if guards_exist(), which is is_safe(); else
\* upcast_take and free for Some
Allocator_try_free_and_take(q, s) ==
    IF Allocator_is_safe(q) THEN [ok |-> FALSE, q |-> q]
    ELSE LET x == upcast_take(q, s) IN
         [ok |-> TRUE,
          q |-> IF x.fp THEN [x.q EXCEPT !.lfl[q.cur[s]] = Append(@, s)] ELSE x.q]

\* Drop for LocalFreeListPool: panics if !is_safe(); else purge and append the
\* local free lists to the global ones
Allocator_drop(q) ==
    IF ~Allocator_is_safe(q) THEN [ok |-> FALSE, q |-> q]
    ELSE LET q1 == Allocator_purge_drop_queue(q) IN
         [ok |-> TRUE,
          q |-> [q1 EXCEPT !.gfl = [L \in Layouts |-> q1.gfl[L] \o q1.lfl[L]],
                           !.lfl = [L \in Layouts |-> <<>>]]]

\* ---- the handles (pointers.rs) over the pool's functions
Old == pools.variant = "old/allocator.rs"

\* Uniq::new: allocate::<T>() and downcast (init_data), or else
\* InUsePtr::allocate: a new Generation of gen 1
Uniq_new(q, L) ==
    LET x == reallocate(q, L) IN
    IF x.fp # 0
    THEN [s |-> x.fp, fresh |-> FALSE,
          q |-> [x.q EXCEPT !.data[x.fp] = "live", !.drops[x.fp] = 0,
                            !.cur[x.fp] = L, !.owned = @ \cup {x.fp}]]
    ELSE LET s == x.q.minted + 1 IN
         [s |-> s, fresh |-> TRUE,
          q |-> [x.q EXCEPT !.minted = s, !.layout[s] = L, !.cur[s] = L,
                            !.gen[s] = 1, !.data[s] = "live", !.drops[s] = 0,
                            !.owned = @ \cup {s}]]

AFrame == <<counterVars, handleVars, rawVars, sharedVars, poolVars, valueVars, ledger>>


\* Owned::new(it) for a payload type of layout L, while fewer than cap slots
\* have been minted
Owned_new(L, cap) ==
    /\ reallocate(pools, L).fp # 0 \/ pools.minted < cap
    /\ LET x == Uniq_new(pools, L) IN
       /\ pools' = x.q
       /\ Returned("Owned::new", ~x.fresh)
    /\ UNCHANGED <<AFrame, arena>>

OwnedNew(L) == Owned_new(L, NumSlots)

\* Owned::alias: a Weak of the slot's generation
OwnedAlias(s) ==
    /\ s \in pools.owned
    /\ pools' = [pools EXCEPT !.weak = [ptr |-> s, gen |-> pools.gen[s]]]
    /\ Returned("alias", TRUE)
    /\ UNCHANGED <<AFrame, arena>>

\* Drop for Owned: free(self.ptr), which is reclaim.  ok: no guard was registered
OwnedDrop(s) ==
    /\ s \in pools.owned
    /\ LET q == [pools EXCEPT !.owned = @ \ {s}] IN
       pools' = IF Old THEN reclaim(q, s) ELSE Allocator_reclaim(q, s)
    /\ Returned("Owned::drop", pools.guards = 0)
    /\ UNCHANGED <<AFrame, arena>>

\* Owned::try_into_inner: free_and_take / try_free_and_take
OwnedTryIntoInner(s) ==
    /\ s \in pools.owned
    /\ LET x == IF Old THEN free_and_take(pools, s)
                ELSE Allocator_try_free_and_take(pools, s) IN
       /\ pools' = IF x.ok THEN [x.q EXCEPT !.owned = @ \ {s}] ELSE x.q
       /\ Returned("try_into_inner", x.ok)
    /\ UNCHANGED <<AFrame, arena>>

\* Weak::try_deref: guard_now_in_use, then the Guard if the generations are
\* equal, else guard_no_longer_in_use and None
WeakTryDeref ==
    /\ pools.weak.ptr # 0
    /\ pools.guards < MaxGuards
    /\ LET q == [pools EXCEPT !.guards = @ + 1] IN
       IF q.weak.gen = q.gen[q.weak.ptr]
       THEN pools' = q /\ Returned("try_deref", TRUE)
       ELSE /\ pools' = IF Old THEN deregister_guard(q) ELSE Allocator_deregister_guard(q)
            /\ Returned("try_deref", FALSE)
    /\ UNCHANGED <<AFrame, arena>>

\* Clone for Guard: guard_now_in_use
GuardClone ==
    /\ pools.guards > 0 /\ pools.guards < MaxGuards
    /\ pools' = [pools EXCEPT !.guards = @ + 1]
    /\ Returned("Guard::clone", TRUE)
    /\ UNCHANGED <<AFrame, arena>>

\* Drop for Guard: guard_no_longer_in_use.  ok: the call purged the drop queue
GuardDrop ==
    /\ pools.guards > 0
    /\ LET q == IF Old THEN deregister_guard(pools) ELSE Allocator_deregister_guard(pools) IN
       /\ pools' = q
       /\ Returned("Guard::drop", pools.dropq # <<>> /\ q.dropq = <<>>)
    /\ UNCHANGED <<AFrame, arena>>

\* The thread ends and its LOCAL_POOL is dropped; handles it still had were
\* leaked.  The next thread starts with a new local pool.
Teardown ==
    /\ LET x == IF Old THEN LocalFreeListPool_drop(pools) ELSE Allocator_drop(pools) IN
       /\ pools' = [x.q EXCEPT !.owned = {}, !.guards = 0, !.dropq = <<>>,
                               !.lfl = [L \in Layouts |-> <<>>],
                               !.weak = [ptr |-> 0, gen |-> 0],
                               !.rq = [L \in Layouts |-> RequestInit]]
       /\ Returned("teardown", x.ok)
    /\ UNCHANGED <<AFrame, arena>>

NextAlloc ==
    \/ \E L \in Layouts : OwnedNew(L)
    \/ \E s \in Slots :
        \/ OwnedAlias(s)
        \/ OwnedDrop(s)
        \/ OwnedTryIntoInner(s)
    \/ WeakTryDeref
    \/ GuardClone
    \/ GuardDrop
    \/ Teardown

InitOldAllocator ==
    /\ InitCounters /\ InitHandles /\ InitRaw /\ InitShared /\ InitPool /\ InitValues
    /\ InitAlloc
    /\ last = [op |-> "init", ok |-> TRUE]

InitAllocator ==
    /\ InitCounters /\ InitHandles /\ InitRaw /\ InitShared /\ InitPool /\ InitValues
    /\ pools = EmptyPools("allocator.rs") /\ arena = InitArenas /\ InitLedger
    /\ last = [op |-> "init", ok |-> TRUE]

SpecAlloc == InitOldAllocator /\ [][NextAlloc]_vars
SpecAllocator == InitAllocator /\ [][NextAlloc]_vars

\* ====== SpecNested: old/allocator.rs with payloads whose destructor drops an Owned
\* An operator that runs a destructor returns [ok, q]; ok = FALSE is the panic
\* of RefCell::borrow_mut (BorrowMutError).  borrowed says that the caller
\* holds self.pool.borrow_mut().

\* Drop for Owned (pointers.rs 105-115) of slot t, run by a destructor: free is
\* reclaim; free_now ends in free_directly, which takes self.pool.borrow_mut()
Owned_drop_nested(q, t, borrowed) ==
    IF ~is_safe(q) THEN [ok |-> TRUE, q |-> drop_later(q, t)]
    ELSE LET x == upcast_drop(invalidate(q, t), t) IN
         IF ~x.fp THEN [ok |-> TRUE, q |-> x.q]
         ELSE IF borrowed THEN [ok |-> FALSE, q |-> x.q]
         ELSE [ok |-> TRUE, q |-> [x.q EXCEPT !.lfl[q.cur[t]] = Append(@, t)]]

\* Generation::drop_data (generations.rs 23): the destructor of the payload of
\* slot s, which drops the Owned the payload holds
drop_data(q, s, borrowed) ==
    IF q.holds[s] = 0 THEN [ok |-> TRUE, q |-> q]
    ELSE Owned_drop_nested([q EXCEPT !.holds[s] = 0], q.holds[s], borrowed)

\* reclaim of slot s; free_now_unique runs upcast_drop before free_directly
\* borrows the pool
reclaim_running(q, s) ==
    IF ~is_safe(q) THEN [ok |-> TRUE, q |-> drop_later(q, s)]
    ELSE LET x == upcast_drop(invalidate(q, s), s)
             d == drop_data(x.q, s, FALSE) IN
         [ok |-> d.ok,
          q |-> IF x.fp /\ d.ok THEN [d.q EXCEPT !.lfl[q.cur[s]] = Append(@, s)] ELSE d.q]

\* the loop of purge_drop_queue (old/allocator.rs 176-180): pool is
\* self.pool.borrow_mut() for the whole loop; a panic leaves the loop and the
\* entries not yet dropped are forgotten with the swapped-out Vec
RECURSIVE drop_it_running(_, _)
drop_it_running(q, dropq) ==
    IF dropq = <<>> THEN [ok |-> TRUE, q |-> q]
    ELSE LET e == Head(dropq)
             x == upcast_drop_invalidated(q, e.s)
             d == drop_data(x.q, e.s, TRUE) IN
         IF ~d.ok THEN d
         ELSE drop_it_running(IF x.fp THEN [d.q EXCEPT !.lfl[e.ty] = Append(@, e.s)] ELSE d.q,
                              Tail(dropq))

purge_drop_queue_running(q) ==
    IF is_safe(q) /\ q.dropq # <<>> THEN drop_it_running([q EXCEPT !.dropq = <<>>], q.dropq)
    ELSE [ok |-> TRUE, q |-> q]

deregister_guard_running(q) == purge_drop_queue_running([q EXCEPT !.guards = @ - 1])

\* a call that ran destructors returned, or panicked with BorrowMutError
Ran(op, x, ok) ==
    /\ pools' = x.q
    /\ IF x.ok THEN Returned(op, ok) ELSE Returned("BorrowMutError", FALSE)
    /\ UNCHANGED <<AFrame, arena>>

\* Owned::new(it) where it holds the Owned of slot t, moved into it
OwnedNewHolding(L, t) ==
    /\ t \in pools.owned /\ pools.holds[t] = 0
    /\ reallocate(pools, L).fp # 0 \/ pools.minted < NumSlots
    /\ LET x == Uniq_new(pools, L) IN
       /\ pools' = [x.q EXCEPT !.holds[x.s] = t, !.owned = @ \ {t}]
       /\ Returned("Owned::new", ~x.fresh)
    /\ UNCHANGED <<AFrame, arena>>

\* Drop for Owned, the payload's destructor run when the slot is freed now.
\* ok: no guard was registered
NestedOwnedDrop(s) ==
    /\ s \in pools.owned
    /\ Ran("Owned::drop", reclaim_running([pools EXCEPT !.owned = @ \ {s}], s),
           pools.guards = 0)

\* Drop for Guard.  ok: the call purged the drop queue
NestedGuardDrop ==
    /\ pools.guards > 0
    /\ Ran("Guard::drop", deregister_guard_running(pools),
           pools.dropq # <<>> /\ pools.guards = 1)

\* Weak::try_deref
NestedTryDeref ==
    /\ pools.weak.ptr # 0
    /\ pools.guards < MaxGuards
    /\ LET q == [pools EXCEPT !.guards = @ + 1] IN
       IF q.weak.gen = q.gen[q.weak.ptr]
       THEN Ran("try_deref", [ok |-> TRUE, q |-> q], TRUE)
       ELSE Ran("try_deref", deregister_guard_running(q), FALSE)

NextNested ==
    \/ \E L \in Layouts :
        \/ OwnedNew(L)
        \/ \E t \in Slots : OwnedNewHolding(L, t)
    \/ \E s \in Slots :
        \/ OwnedAlias(s)
        \/ NestedOwnedDrop(s)
    \/ NestedTryDeref
    \/ GuardClone
    \/ NestedGuardDrop

SpecNested == InitOldAllocator /\ [][NextNested]_vars

\* ====== SpecLatch: old/allocator.rs, the request sizes with a second thread
\* The first thread allocates and drops Owned values and calls
\* reset_request_behavior; a second thread allocates and drops Owned values
\* and exits, which hands its free lists to GLOBAL_POOL.  The slots and
\* GLOBAL_POOL are shared, each thread has its own LOCAL_POOL.

\* reset_requests: every request size that is None becomes the first size
reset_requests(q) ==
    [q EXCEPT !.rq = [L \in Layouts |-> IF q.rq[L] = 0 THEN RequestInit ELSE q.rq[L]]]

\* the pools as the second thread's LOCAL_POOL.with sees them: its own local
\* pool in place of the first thread's (and back)
OnOther(q) ==
    [q EXCEPT !.owned = q.other.owned, !.guards = q.other.guards,
              !.dropq = q.other.dropq, !.lfl = q.other.lfl, !.rq = q.other.rq,
              !.other = [owned |-> q.owned, guards |-> q.guards, dropq |-> q.dropq,
                         lfl |-> q.lfl, rq |-> q.rq]]

\* Owned::new on the first thread; the two threads mint LatchSlots slots
OwnedNewLatch(L) == Owned_new(L, LatchSlots)

\* reset_request_behavior()
ResetRequestBehavior ==
    /\ pools' = reset_requests(pools)
    /\ Returned("reset_request_behavior", TRUE)
    /\ UNCHANGED <<AFrame, arena>>

\* Owned::new on the second thread, which holds one Owned at a time
OtherOwnedNew(L) ==
    /\ pools.other.owned = {}
    /\ reallocate(OnOther(pools), L).fp # 0 \/ pools.minted < LatchSlots
    /\ LET x == Uniq_new(OnOther(pools), L) IN
       /\ pools' = OnOther(x.q)
       /\ Returned("Owned::new on the second thread", ~x.fresh)
    /\ UNCHANGED <<AFrame, arena>>

\* Drop for Owned on the second thread
OtherOwnedDrop(s) ==
    /\ s \in pools.other.owned
    /\ pools' = OnOther(reclaim([OnOther(pools) EXCEPT !.owned = @ \ {s}], s))
    /\ Returned("Owned::drop on the second thread", TRUE)
    /\ UNCHANGED <<AFrame, arena>>

\* the second thread exits, holding no Owned: Drop for its LocalFreeListPool;
\* the next second thread starts with LOCAL_POOL as initialized
OtherExit ==
    /\ pools.other.owned = {}
    /\ pools.other # LocalPoolInit
    /\ LET x == LocalFreeListPool_drop(OnOther(pools)) IN
       /\ pools' = [OnOther(x.q) EXCEPT !.other = LocalPoolInit]
       /\ Returned("exit of the second thread", x.ok)
    /\ UNCHANGED <<AFrame, arena>>

\* the payload type of the second thread
OtherLayouts == {"Generation<u8>"}

NextLatch ==
    \/ \E L \in Layouts : OwnedNewLatch(L)
    \/ \E L \in OtherLayouts : OtherOwnedNew(L)
    \/ \E s \in Slots :
        \/ OwnedDrop(s)
        \/ OtherOwnedDrop(s)
    \/ ResetRequestBehavior
    \/ OtherExit

SpecLatch == InitOldAllocator /\ [][NextLatch]_vars

\* ====== SpecLedger: the thread-confined counter of the ledger variant (local_ledger.rs)
\* lock is a Cell<i32>: 0 unlocked, n > 0 shared holders, -1 exclusive.  The
\* result of a call is [ok, st]: for a try_ call ok is what it returned, for
\* the others ok = FALSE is the panic.

\* LocalCounter::try_lock_exclusive
local_ledger_try_lock_exclusive(lock) ==
    IF lock = 0 THEN [ok |-> TRUE, st |-> -1] ELSE [ok |-> FALSE, st |-> lock]

\* LocalCounter::lock_exclusive: panics if try_lock_exclusive refuses
local_ledger_lock_exclusive(lock) == local_ledger_try_lock_exclusive(lock)

\* LocalCounter::try_lock_shared
local_ledger_try_lock_shared(lock) ==
    IF lock >= 0 THEN [ok |-> TRUE, st |-> lock + 1] ELSE [ok |-> FALSE, st |-> lock]

\* LocalCounter::try_upgrade
local_ledger_try_upgrade(lock) ==
    IF lock = 1 THEN [ok |-> TRUE, st |-> -1] ELSE [ok |-> FALSE, st |-> lock]

\* LocalCounter::unlock_exclusive
local_ledger_unlock_exclusive(lock) ==
    IF lock >= 1 \/ lock = 0 THEN [ok |-> FALSE, st |-> lock] ELSE [ok |-> TRUE, st |-> 0]

\* fault variant: the unlock as counter.rs has it, without a test
local_ledger_unlock_shared_unchecked(lock) == [ok |-> TRUE, st |-> lock - 1]

\* LocalCounter::unlock_shared
local_ledger_unlock_shared(lock) ==
    IF lock < 0 \/ lock = 0 THEN [ok |-> FALSE, st |-> lock] ELSE [ok |-> TRUE, st |-> lock - 1]

\* any of the calls on counter l, by a caller that may or may not hold a lock
LedgerCall(l, op, x) ==
    /\ ledger' = [ledger EXCEPT ![l] = x.st]
    /\ Returned(op, x.ok)
    /\ UNCHANGED <<counterVars, handleVars, rawVars, sharedVars, poolVars, valueVars,
                   pools, arena>>

LedgerTryLockExclusive(l) ==
    LedgerCall(l, "try_lock_exclusive", local_ledger_try_lock_exclusive(ledger[l]))

LedgerLockExclusive(l) ==
    LedgerCall(l, "lock_exclusive", local_ledger_lock_exclusive(ledger[l]))

LedgerTryLockShared(l) ==
    /\ ledger[l] < MaxReaders
    /\ LedgerCall(l, "try_lock_shared", local_ledger_try_lock_shared(ledger[l]))

LedgerTryUpgrade(l) ==
    LedgerCall(l, "try_upgrade", local_ledger_try_upgrade(ledger[l]))

LedgerUnlockExclusive(l) ==
    LedgerCall(l, "unlock_exclusive", local_ledger_unlock_exclusive(ledger[l]))

LedgerUnlockShared(l) ==
    LedgerCall(l, "unlock_shared", local_ledger_unlock_shared(ledger[l]))

NextLedger ==
    \E l \in Locals :
        \/ LedgerTryLockExclusive(l)
        \/ LedgerLockExclusive(l)
        \/ LedgerTryLockShared(l)
        \/ LedgerTryUpgrade(l)
        \/ LedgerUnlockExclusive(l)
        \/ LedgerUnlockShared(l)

SpecLedger == Init /\ [][NextLedger]_vars

\* ====== SpecArena: counters minted by the arenas (old2/arena.rs, counter.rs 25-106)
\* GenCounter::read (old2/counters.rs 41-44): NonZeroUsize::new(read_raw())
\* .expect(..); ok = FALSE is the panic
GenCounter_read(raw) == [ok |-> raw # 0, n |-> raw]

\* the batches an arena has minted, oldest first
BatchesOf(k) ==
    CASE k = "thread" -> Append(arena.thread.baggage, arena.thread.current)
      [] k = "static" -> arena.static.leaked
      [] k = "lfresh" -> Append(arena.lfresh.leaked, arena.lfresh.fresh)
      [] k = "gfresh" -> arena.gfresh.leaked

Handed(k, x, t) ==
    /\ Len(BatchesOf(k)) < MaxBatches \/ x.b <= Len(BatchesOf(k))
    /\ arena' = [arena EXCEPT ![k] = x.a, !.out[k] = Append(@, <<x.b, x.i>>),
                              !.res = [k |-> k, b |-> x.b, i |-> x.i, v |-> x.v, by |-> t]]
    /\ Returned(k, x.b > Len(BatchesOf(k)))
    /\ UNCHANGED <<AFrame, pools>>

\* FastCounter::new with an empty free list: ThreadArena::alloc
ThreadAlloc == Handed("thread", ThreadArena_allocate(arena.thread), 0)

\* SyncCounter::new with an empty free list: StaticArena::alloc, under the
\* write lock of STATIC_ARENA
StaticAlloc(t) == Handed("static", StaticArena_allocate(arena.static), t)

\* LocalGeneration::new with an empty free list
LocalFresh == Handed("lfresh", LocalGeneration_fresh(arena.lfresh), 0)

\* GlobalGeneration::new with an empty free list, by thread t
GlobalFresh(t) == Handed("gfresh", GlobalGeneration_fresh_slice(arena.gfresh), t)

\* GlobalGeneration::leak_all_and_reset: the free list and the fresh list start
\* over; the slices leaked so far stay where they are
LeakAllAndReset ==
    /\ arena.gfresh.slice.b # 0
    /\ Len(BatchesOf("gfresh")) < MaxBatches
    /\ gFreeList' = <<>>
    /\ arena' = [arena EXCEPT !.gfresh.n = FirstChunk, !.gfresh.slice = [b |-> 0, pos |-> 0]]
    /\ Returned("leak_all_and_reset", TRUE)
    /\ UNCHANGED <<cell, gcell, nextFresh, gNextFresh, freeList, handleVars, rawVars,
                   sharedVars, poolVars, valueVars, pools, ledger>>

\* the arenas of old2
NextArena ==
    \/ ThreadAlloc
    \/ \E t \in Threads : StaticAlloc(t)

SpecArena == InitOldAllocator /\ [][NextArena]_vars

\* the arenas of counter.rs
NextFresh ==
    \/ LocalFresh
    \/ LeakAllAndReset
    \/ \E t \in Threads : GlobalFresh(t)

SpecFresh == Init /\ [][NextFresh]_vars

\* ===================================================================== claims
\* Helpers first, then the claims in order.  C2 and C5 are stated over
\* SpecShared, C3, C9 and C10 over SpecRaw, the others over Spec.

\* the guards outstanding on allocation p
Guards(p) == readings[p] + writing[p]

\* the owner is gone and the destructor has not run yet
Pending(p) == strong[p] = "gone" /\ payload[p] = "live"

\* the counter of p has not been promoted to a shared counter
ThreadConfined(p) == genptr[p] \in Locals /\ cell[genptr[p]].tag = "Local"

\* what free has to have done with the counter of p between heaps h and h2;
\* retiredExempt: a counter whose count wrapped to 0 is not put back
CounterFreed(h, h2, p, retiredExempt) ==
    IF retiredExempt /\ count(h2, Ref(p)) = 0
    THEN h2.fl = h.fl
    ELSE h2.fl = Append(h.fl, genptr[p])

\* the shared allocation: some guard is outstanding; every call has returned
\* and no guard is left
SOutstanding == \E t \in Threads : tReadings[t] + tWriting[t] >= 1

SQuiescent == \A t \in Threads : pc[t] = "idle" /\ tReadings[t] = 0 /\ tWriting[t] = 0

\* C1  Invalidation: a Weak made by alias() is valid exactly while its Strong
\* has been neither dropped nor taken; once invalid it never becomes valid
\* again, whatever is done later (recycling, further drops, promotion).
C1_Invalidation ==
    \A p \in Allocs :
        strong[p] # "unborn" => (Weak_is_valid(Heap, Ref(p), genref[p]) <=> strong[p] = "alive")

\* a Weak whose Strong was taken long ago is valid again after share()
C1_Witness ==
    /\ last = [op |-> "share", ok |-> TRUE]
    /\ \E p \in Allocs : /\ strong[p] = "gone" /\ payload[p] = "taken"
                         /\ Weak_is_valid(Heap, Ref(p), genref[p])

\* C2  Single destruction: the payload is destructed or moved out at most once,
\* and never while a Reading or Writing guard on it is outstanding, on a
\* thread-confined or a shared counter, in every interleaving.
C2_SingleDestruction ==
    /\ sDestructed <= 1
    /\ SOutstanding => sDestructed = 0

\* the Box of the shared allocation has been dropped twice
C2_Witness == sDestructed = 2 /\ sStrong = "gone"

\* C3  Lock mutual exclusion: on every counter there is never an exclusive
\* holder together with a shared holder, and never two exclusive holders;
\* try_lock_exclusive (and Strong::try_write, Weak::try_write, which take it)
\* fails while a shared lock is held, try_lock_shared (and Strong::try_read,
\* Weak::try_read) fails while the exclusive lock is held.
C3_MutualExclusion ==
    \A l \in held :
        LET r == LRef(l)
            v == count(Heap, r) IN
        /\ hExcl[l] <= 1
        /\ ~(hExcl[l] >= 1 /\ hShared[l] + hUpgr[l] >= 1)
        /\ hShared[l] + hUpgr[l] >= 1 =>
               /\ ~try_lock_exclusive(Heap, r).ok
               /\ ~Strong_try_write(Heap, r).ok
               /\ ~Weak_try_write(Heap, r, v).ok
        /\ hExcl[l] >= 1 =>
               /\ ~try_lock_shared(Heap, r).ok
               /\ ~Strong_try_read(Heap, r).ok
               /\ ~Weak_try_read(Heap, r, v).ok

\* try_lock_exclusive has just failed on a counter with two shared holders
C3_Witness ==
    /\ last = [op |-> "try_lock_exclusive", ok |-> FALSE]
    /\ \E l \in held : hShared[l] = 2 /\ hExcl[l] = 0

\* the steps of a deferred drop on a thread-confined counter: Strong::drop
\* with guards outstanding, a guard drop that leaves guards, the drop of the
\* last guard, and no second destruction afterwards
C4_DeferredDrop(retiredExempt) ==
    \A p \in Allocs :
        ThreadConfined(p)' =>
            /\ (strong[p] = "alive" /\ strong'[p] = "gone" /\ Guards(p) >= 1
                /\ last'.op = "Strong::drop") => payload'[p] = "live"
            /\ (Pending(p) /\ Guards(p)' >= 1) => payload'[p] = "live"
            /\ (Pending(p) /\ Guards(p) >= 1 /\ Guards(p)' = 0) =>
                   /\ payload'[p] = "dropped"
                   /\ CounterFreed(Heap, Heap', p, retiredExempt)
            /\ payload[p] \in {"dropped", "taken"} => payload'[p] = payload[p]

\* C4  Deferred drop on a thread-confined counter: a Strong dropped while
\* guards are outstanding leaves the payload undestructed when drop returns
\* and while any guard remains; the drop of the last guard destructs it,
\* exactly once, and returns the counter to the free list, in every order of
\* guard drops; as amended, a counter whose count wrapped to 0 is retired
\* instead of being returned.
C4_DeferredDropAmended == [][C4_DeferredDrop(TRUE)]_vars

\* C4 as stated: the counter is on the free list after every deferred drop
C4_DeferredDropAsStated == [][C4_DeferredDrop(FALSE)]_vars

\* the last Reading has just performed the deferred drop
C4_Witness ==
    /\ last = [op |-> "Reading::drop", ok |-> TRUE]
    /\ \E p \in Allocs : /\ strong[p] = "gone" /\ payload[p] = "dropped" /\ Guards(p) = 0
                         /\ ThreadConfined(p)

\* C5  Payload eventually dropped under concurrency: once the Strong is gone,
\* every guard has been dropped and every call has returned, the payload was
\* dropped exactly once and the shared counter is on the free list.
C5_DroppedOnceShared ==
    (sStrong = "gone" /\ SQuiescent) =>
        /\ sDestructed = 1
        /\ gFreeList = <<SharedCounter>>

\* every call has returned, no guard is left, the payload was never dropped
C5_Witness == sStrong = "gone" /\ SQuiescent /\ sDestructed = 0 /\ gFreeList = <<>>

\* C6  Weak::try_read / try_write re-validate under the lock; after the owner
\* has been dropped or taken every such call returns None.
C6_NoneAfterOwnerGone ==
    \A p \in Allocs :
        strong[p] = "gone" =>
            /\ ~Weak_try_read(Heap, Ref(p), genref[p]).ok
            /\ ~Weak_try_write(Heap, Ref(p), genref[p]).ok

\* Weak::try_read has just returned Some for a payload already destructed
C6_Witness ==
    /\ last = [op |-> "Weak::try_read", ok |-> TRUE]
    /\ \E p \in Allocs : strong[p] = "gone" /\ payload[p] = "dropped" /\ readings[p] >= 1

\* C7  The count changes exactly once per deallocation of the owning handle
\* (Strong::drop, immediate or deferred, and successful try_take), by one
\* bump, and no other operation changes it.
C7_CountChangesOnlyAtDeallocation ==
    [][/\ \A l \in 1..nextFresh :
              count(Heap', LRef(l)) # count(Heap, LRef(l)) =>
                  \E p \in Allocs :
                      /\ genptr[p] = l /\ strong[p] = "alive" /\ strong'[p] = "gone"
                      /\ count(Heap', LRef(l)) = RawLocalCounter_bump(count(Heap, LRef(l)))
       /\ \A p \in Allocs :
              (strong[p] = "alive" /\ strong'[p] = "gone") =>
                  count(Heap', Ref(p)) # count(Heap, Ref(p))]_vars

\* share() has just promoted a retired counter: the count reads COUNTER_INIT
\* although the last allocation on it was made at a later count
C7_Witness ==
    /\ last = [op |-> "share", ok |-> TRUE]
    /\ \E p \in Allocs : /\ strong[p] = "gone" /\ genref[p] > COUNTER_INIT
                         /\ cell[genptr[p]].tag = "Global"
                         /\ count(Heap, Ref(p)) = COUNTER_INIT

\* what Strong::try_take would do in the current state, for every live Strong,
\* and what a try_take step has done
C8_TryTake(retiredExempt) ==
    /\ \A p \in Allocs :
           strong[p] = "alive" =>
               LET r == Ref(p)
                   x == Strong_try_take(Heap, r) IN
               /\ x.ok <=> Guards(p) = 0
               /\ x.ok <=> AccessStateOf(Heap, r).kind = "None"
               /\ ~x.ok => /\ x.h = Heap
                           /\ Weak_is_valid(x.h, r, genref[p])
               /\ x.ok => /\ count(x.h, r) = RawLocalCounter_bump(count(Heap, r))
                          /\ count(x.h, r) # count(Heap, r)
                          /\ AccessStateOf(x.h, r).kind = "None"
                          /\ CounterFreed(Heap, x.h, p, retiredExempt)
    /\ last' = [op |-> "try_take", ok |-> FALSE] => UNCHANGED <<counterVars, handleVars>>
    /\ \A p \in Allocs :
           (last'.op = "try_take" /\ strong[p] = "alive" /\ strong'[p] = "gone") =>
               payload[p] = "live" /\ payload'[p] = "taken"

\* C8  Strong::try_take succeeds iff no accessor lock is held on the
\* allocation; a failure changes nothing (count, lock state, free list,
\* payload, validity of the aliases); a success bumps the count, hands the
\* payload out undestructed and returns the counter unlocked to the free
\* list; as amended, a counter whose count wrapped to 0 is retired instead.
C8_TryTakeAmended == [][C8_TryTake(TRUE)]_vars

\* C8 as stated: every successful try_take puts the counter on the free list
C8_TryTakeAsStated == [][C8_TryTake(FALSE)]_vars

\* try_take has just failed against an outstanding guard, nothing consumed
C8_Witness ==
    /\ last = [op |-> "try_take", ok |-> FALSE]
    /\ \E p \in Allocs : strong[p] = "alive" /\ Guards(p) >= 1 /\ payload[p] = "live"

\* C9  Upgrade atomicity: try_upgrade called by the upgradable holder succeeds,
\* leaving the counter Exclusive, iff no other shared reader holds the lock;
\* otherwise it returns false and leaves the lock state exactly as it was.
C9_UpgradeAtomicity ==
    \A l \in held :
        hUpgr[l] >= 1 =>
            LET x == try_upgrade(Heap, LRef(l)) IN
            /\ x.ok <=> hShared[l] = 0
            /\ x.ok => AccessStateOf(x.h, LRef(l)).kind = "Writer"
            /\ ~x.ok => x.h = Heap

\* try_upgrade has just failed: the upgradable holder shares with a reader
C9_Witness ==
    /\ last = [op |-> "try_upgrade", ok |-> FALSE]
    /\ \E l \in held : hUpgr[l] = 1 /\ hShared[l] >= 1
                       /\ AccessStateOf(Heap, LRef(l)).upgrade

\* C10  Recycling round-trip on the thread-local pool: new() recycles whenever
\* the free list is non-empty and mints only when it is empty, so the number
\* of counters ever minted is the largest number held at once, every minted
\* counter is either held or on the free list exactly once, and when no
\* counter is held the free-list size is that maximum.
C10_RecyclingRoundTrip ==
    /\ nextFresh = maxHeld
    /\ Len(freeList) + Cardinality(held) = nextFresh
    /\ \A i, j \in 1..Len(freeList) : freeList[i] = freeList[j] => i = j
    /\ \A i \in 1..Len(freeList) : freeList[i] \notin held
    /\ held = {} => Len(freeList) = maxHeld
    /\ Len(freeList) > 0 => ~LocalGeneration_new(Heap).fresh

\* new() has just recycled a counter, every counter of the arena is held
\* again and none was minted beyond the first round
C10_Witness ==
    /\ last = [op |-> "new", ok |-> TRUE]
    /\ Cardinality(held) = NumLocal
    /\ nextFresh = NumLocal
    /\ freeList = <<>>
\* the counters some thread holds or is freeing
PoolInUse ==
    (UNION {tHeld[t] : t \in Threads} \cup {tFreeing[t] : t \in Threads}) \ {0}
PoolFree == {gFreeList[i] : i \in 1 .. Len(gFreeList)}
PoolFinished == \A t \in Threads : pc[t] = "done"

\* C11: under every interleaving of the threads' new/free cycles no counter is
\* held by two holders at once, no counter is on the free list twice or lost
\* (each minted counter is either in exactly one place: held, being freed, or
\* once on the free list), at most NumThreads * MaxHold counters are ever
\* minted and at least as many as a thread holds, so that when all threads
\* have finished the free list holds every minted counter, between the most a
\* thread held and NumThreads * MaxHold of them.
C11_GlobalPool ==
    /\ \A t, u \in Threads :
           /\ t # u => tHeld[t] \cap (tHeld[u] \cup {tFreeing[u]}) = {}
           /\ t # u /\ tFreeing[t] # 0 => tFreeing[t] # tFreeing[u]
           /\ tFreeing[t] \notin tHeld[t]
           /\ Cardinality(tHeld[t]) <= gNextFresh
    /\ Cardinality(PoolFree) = Len(gFreeList)
    /\ PoolFree \cap PoolInUse = {}
    /\ PoolFree \cup PoolInUse = 1 .. gNextFresh
    /\ gNextFresh <= NumThreads * MaxHold
    /\ PoolFinished => Len(gFreeList) = gNextFresh

\* both threads held MaxHold counters at once, so NumThreads * MaxHold were
\* minted, and all of them are back on the free list
C11_Witness ==
    /\ PoolFinished
    /\ Len(gFreeList) = NumThreads * MaxHold
    /\ gNextFresh = NumThreads * MaxHold

\* C12: globalize on the same thread-confined counter always returns the same
\* shared counter, whatever lock operations happen in between: once a cell
\* holds Global(g) it holds it for good, the first call mints exactly one
\* shared counter and stores it in the cell, and every later call mints
\* nothing and leaves every shared counter (its lock state included) as it is.
C12_PromotionIdempotence ==
    [][/\ \A l \in Locals : cell[l].tag = "Global" => cell'[l] = cell[l]
       /\ \A l \in Locals :
              cell[l].tag = "Global" =>
                  LocalCounter_globalize(Heap, l) = [g |-> cell[l].g, h |-> Heap]
       /\ last'.op = "globalize" /\ last'.ok =>
              /\ gNextFresh' = gNextFresh + 1
              /\ \E l \in Locals : /\ cell[l].tag = "Local"
                                   /\ cell'[l].tag = "Global"
                                   /\ cell'[l].g = gNextFresh'
       /\ last'.op = "globalize" /\ ~last'.ok =>
              gNextFresh' = gNextFresh /\ gcell' = gcell
       /\ gNextFresh' # gNextFresh => last'.op = "globalize" /\ last'.ok]_vars

\* globalize was called again on a promoted counter that holds locks taken
\* after its promotion
C12_Witness ==
    /\ last = [op |-> "globalize", ok |-> FALSE]
    /\ \E l \in held : /\ cell[l].tag = "Global"
                       /\ hShared[l] > 0 /\ hUpgr[l] > 0
                       /\ gcell[cell[l].g].access.readers > 0

\* the abstract lock state the holders of counter l account for
HeldState(l) ==
    IF hExcl[l] > 0 THEN [kind |-> "Writer", normal |-> 0, upgrade |-> FALSE]
    ELSE IF hShared[l] = 0 /\ hUpgr[l] = 0
         THEN [kind |-> "None", normal |-> 0, upgrade |-> FALSE]
         ELSE [kind |-> "Readers", normal |-> hShared[l], upgrade |-> hUpgr[l] > 0]

\* C13: promotion transfers the lock state.  For every thread-confined counter
\* in any lock state, the heap right after globalize has the shared counter in
\* the same abstract lock state, try_lock_shared, try_lock_exclusive and
\* try_lock_upgradable return on it what they return on the local counter
\* before promotion, and each unlock an outstanding holder may issue leads to
\* the same abstract state on both; a promoted counter's lock state is the one
\* its holders account for.
C13_LockStateTransfers ==
    \A l \in held :
        LET r == LRef(l) IN
        /\ AccessStateOf(Heap, r) = HeldState(l)
        /\ cell[l].tag = "Local" /\ gNextFresh < NumGlobal =>
               LET after == LocalCounter_globalize(Heap, l).h IN
               /\ after.lc[l].tag = "Global"
               /\ AccessStateOf(after, r) = AccessStateOf(Heap, r)
               /\ try_lock_shared(after, r).ok = try_lock_shared(Heap, r).ok
               /\ try_lock_exclusive(after, r).ok = try_lock_exclusive(Heap, r).ok
               /\ try_lock_upgradable(after, r).ok = try_lock_upgradable(Heap, r).ok
               /\ hShared[l] > 0 =>
                      AccessStateOf(unlock_shared(after, r).h, r)
                          = AccessStateOf(unlock_shared(Heap, r).h, r)
               /\ hUpgr[l] > 0 =>
                      AccessStateOf(unlock_upgradable(after, r).h, r)
                          = AccessStateOf(unlock_upgradable(Heap, r).h, r)
               /\ hExcl[l] > 0 =>
                      AccessStateOf(unlock_exclusive(after, r).h, r)
                          = AccessStateOf(unlock_exclusive(Heap, r).h, r)

\* a counter with shared holders and the upgradable holder has just been
\* promoted, and the shared counter carries exactly those locks
C13_Witness ==
    /\ last = [op |-> "globalize", ok |-> TRUE]
    /\ \E l \in held :
           /\ cell[l].tag = "Global"
           /\ hShared[l] = MaxReaders /\ hUpgr[l] = 1
           /\ gcell[cell[l].g].access
                  = [readers |-> MaxReaders, upgradable |-> TRUE, writer |-> FALSE]

\* the RawRwLock state that stands for the lock word w of a RawLocalCounter
SharedOf(w) == AccessState_inflict(AccessState_new(w), RwLock_INIT)

\* the call returns the same on both variants and leaves them in step
InStep(x, y) == x.ok = y.ok /\ SharedOf(x.st) = y.st

\* C16: the thread-confined and the shared counter implement the same
\* access-control contract.  In every lock state a thread-confined counter
\* reaches by calls in which unlocks (and the calls that convert a held lock)
\* are issued by holders only, each of the nine calls returns on the local
\* lock word what it returns on the RawRwLock in the corresponding state, and
\* the two resulting states correspond again; so the results agree at every
\* step of every such sequence.
C16_SameContract ==
    \A l \in held :
        cell[l].tag = "Local" =>
            LET w == cell[l].access
                s == SharedOf(w) IN
            /\ InStep(RawLocalCounter_try_lock_shared(w), GlobalCounter_try_lock_shared(s))
            /\ InStep(RawLocalCounter_try_lock_exclusive(w),
                      GlobalCounter_try_lock_exclusive(s))
            /\ InStep(RawLocalCounter_try_lock_upgradable(w),
                      GlobalCounter_try_lock_upgradable(s))
            /\ hUpgr[l] > 0 =>
                   /\ InStep(RawLocalCounter_try_upgrade(w), GlobalCounter_try_upgrade(s))
                   /\ InStep(RawLocalCounter_unlock_upgradable(w),
                             GlobalCounter_unlock_upgradable(s))
            /\ hShared[l] > 0 =>
                   /\ InStep(RawLocalCounter_try_shared_into_exclusive(w),
                             GlobalCounter_try_shared_into_exclusive(s))
                   /\ InStep(RawLocalCounter_unlock_shared(w),
                             GlobalCounter_unlock_shared(s))
            /\ hExcl[l] > 0 =>
                   /\ InStep(RawLocalCounter_downgrade(w), GlobalCounter_downgrade(s))
                   /\ InStep(RawLocalCounter_unlock_exclusive(w),
                             GlobalCounter_unlock_exclusive(s))

\* a thread-confined and a promoted counter are both held by one shared and
\* the upgradable holder, and try_upgrade has just failed
C16_Witness ==
    /\ last = [op |-> "try_upgrade", ok |-> FALSE]
    /\ \E l, k \in held :
           /\ cell[l].tag = "Local" /\ cell[k].tag = "Global"
           /\ cell[l].access = 3
           /\ gcell[cell[k].g].access = SharedOf(3)

\* the largest count a counter can hold (u32::MAX in counter.rs)
CounterMax == CounterModulus - 1

\* the counters on the two free lists, as references
OnFreeLists ==
    {LRef(freeList[i]) : i \in 1 .. Len(freeList)}
        \cup {GRef(gFreeList[i]) : i \in 1 .. Len(gFreeList)}

\* the counter allocation p was paired with has been bumped past CounterMax:
\* p was created at validity CounterMax and its owner is gone (Strong::drop
\* and a successful try_take bump first)
Exhausted(p) == strong[p] = "gone" /\ genref[p] = CounterMax

\* C14: overflow-to-leak.  A counter whose count has been driven over the
\* maximum value is retired: free does not push it onto a free list, neither
\* the thread-local one nor, once promoted, the global one, so new() cannot
\* hand it out again.
C14_OverflowToLeak ==
    \A p \in Allocs :
        Exhausted(p) =>
            /\ LRef(genptr[p]) \notin OnFreeLists
            /\ GlobalOf(Heap, LRef(genptr[p])) # 0 =>
                   GRef(GlobalOf(Heap, LRef(genptr[p]))) \notin OnFreeLists

\* an exhausted counter that is retired and on no free list
C14_Witness ==
    \E p \in Allocs :
        /\ Exhausted(p)
        /\ payload[p] # "live"
        /\ count(Heap, LRef(genptr[p])) = 0
        /\ OnFreeLists = {}

\* C15: read-your-writes through aliases.  A new allocation holds the value
\* passed to Strong::new; while its owner is alive the value its Readings
\* observe (through the Strong or any Weak: all hold the same pointer) changes
\* only by a store through a Writing guard on that allocation, and every guard
\* views the live payload; after the owner is dropped Weak::try_read returns
\* None.
C15_ReadYourWrites ==
    [][\A p \in Allocs :
          /\ strong[p] = "unborn" /\ strong'[p] = "alive" => box'[p] = InitialValue
          /\ strong[p] = "alive" /\ strong'[p] = "alive" /\ box'[p] # box[p] =>
                 writing[p] >= 1 /\ last' = [op |-> "store", ok |-> TRUE]
          /\ strong[p] = "alive" /\ readings[p] + writing[p] > 0 => payload[p] = "live"
          /\ strong[p] = "gone" => ~Weak_try_read(Heap, Ref(p), genref[p]).ok]_vars

\* a Weak read a value stored through a Writing guard, the owner being alive
C15_Witness ==
    /\ last = [op |-> "Weak::try_read", ok |-> TRUE]
    /\ \E p \in Allocs :
           /\ strong[p] = "alive" /\ readings[p] >= 1
           /\ box[p] # InitialValue

\* slot s is on a free list of the local pool q
OnLocalFreeList(q, s) == \E L \in Layouts : \E i \in 1 .. Len(q.lfl[L]) : q.lfl[L][i] = s

\* the step is Drop for Owned of slot s
DropsOwned(s) == s \in pools.owned /\ s \notin pools'.owned /\ last'.op = "Owned::drop"

\* C17: drop-queue deferral in the thread-local pool of allocator.rs.  An owned
\* allocation reclaimed while a guard is registered is pushed onto the drop
\* queue and is neither destructed nor put on a free list by the call; one
\* reclaimed while no guard is registered does not go through the drop queue.
C17_DropQueueDeferral ==
    [][\A s \in Slots :
          DropsOwned(s) =>
              IF pools.guards > 0
              THEN /\ pools'.dropq = Append(pools.dropq, [s |-> s, ty |-> pools.cur[s]])
                   /\ pools'.data[s] = "live"
                   /\ ~OnLocalFreeList(pools', s)
              ELSE pools'.dropq = pools.dropq]_vars

\* an allocation was reclaimed with a guard registered and is already on a
\* free list, its drop queue empty
C17_Witness ==
    /\ pools.variant = "allocator.rs"
    /\ last = [op |-> "Owned::drop", ok |-> FALSE]
    /\ pools.guards > 0 /\ pools.dropq = <<>>
    /\ \E s \in Slots : OnLocalFreeList(pools, s)

\* the entries of a drop queue
Queued(q) == {q.dropq[i] : i \in 1 .. Len(q.dropq)}

\* slot s is on the local free list of layout L
OnLocalFreeListOf(q, s, L) == \E i \in 1 .. Len(q.lfl[L]) : q.lfl[L][i] = s

\* the free-list half of C18 for an entry purged in this step
C18_Freed(e, endOfLifeExempt) ==
    IF endOfLifeExempt /\ is_end_of_life(pools.gen[e.s])
    THEN ~OnLocalFreeList(pools', e.s)
    ELSE OnLocalFreeListOf(pools', e.s, pools.layout[e.s])

C18_Draining(endOfLifeExempt) ==
    /\ pools'.guards > 0 =>
          /\ Len(pools'.dropq) >= Len(pools.dropq)
          /\ SubSeq(pools'.dropq, 1, Len(pools.dropq)) = pools.dropq
          /\ \A e \in Queued(pools) :
                /\ pools'.data[e.s] = "live"
                /\ pools'.drops[e.s] = 0
    /\ (pools'.guards = 0 /\ last'.op \in {"Guard::drop", "try_deref"}) =>
          /\ pools'.dropq = <<>>
          /\ \A e \in Queued(pools) :
                /\ pools'.data[e.s] = "dropped"
                /\ pools'.drops[e.s] = 1
                /\ C18_Freed(e, endOfLifeExempt)
    /\ pools.guards = 0 => pools.dropq = <<>>

SlotsOn(fl) == {fl[i] : i \in 1 .. Len(fl)}

\* the slots of layout L that a purge of q's drop queue puts on a free list
PurgedTo(q, L) == {e.s : e \in {x \in Queued(q) : x.ty = L /\ ~is_end_of_life(q.gen[x.s])}}

\* no slot is twice on the lists fls (one list per layout)
NoDuplicates(fls) ==
    /\ \A L \in Layouts : Cardinality(SlotsOn(fls[L])) = Len(fls[L])
    /\ \A L, M \in Layouts : L # M => SlotsOn(fls[L]) \cap SlotsOn(fls[M]) = {}

C20_LayoutKeyedReuse ==
    [][/\ \A s \in pools'.owned \ pools.owned :
             s <= pools.minted =>
                 /\ pools'.cur[s] = pools.layout[s]
                 /\ pools'.cur[s] = pools.cur[s]
       /\ \A L \in Layouts :
             \A s \in SlotsOn(pools'.lfl[L]) \cup SlotsOn(pools'.gfl[L]) :
                 pools'.cur[s] = L /\ pools'.layout[s] = L]_vars

\* Owned::new has reused a slot in a thread whose request took the last slot
\* of that layout from the global pool, where a teardown had put it
C20_Witness ==
    /\ pools.variant = "old/allocator.rs"
    /\ last = [op |-> "Owned::new", ok |-> TRUE]
    /\ \E s \in pools.owned :
          /\ pools.gen[s] > 1
          /\ pools.rq[pools.cur[s]] = 0
          /\ pools.lfl[pools.cur[s]] = <<>> /\ pools.gfl[pools.cur[s]] = <<>>

\* the step is an unlock call by a caller that gave up no lock it held
UnheldUnlock ==
    /\ last'.op \in {"unlock_shared", "unlock_exclusive"}
    /\ hShared' = hShared /\ hExcl' = hExcl

\* C21  Protocol violations trap (thread-confined counter of counter.rs):
\* unlock_shared called with no shared lock held and unlock_exclusive called
\* with no exclusive lock held do not return and leave every lock word as it
\* was.
C21_ProtocolViolationsTrap ==
    [][UnheldUnlock => (~last'.ok /\ cell' = cell)]_vars

\* unlock_exclusive has returned on a purely shared counter: the lock word is
\* 0 while the caller still holds its shared lock
C21_Witness ==
    /\ last = [op |-> "unlock_exclusive", ok |-> TRUE]
    /\ \E l \in held :
          /\ cell[l].tag = "Local" /\ cell[l].access = 0
          /\ hShared[l] >= 1 /\ hExcl[l] = 0

\* ---- C22: the holders of the SpecSie counter, from the callers' side
SieMidCall == {"sie_unlock_shared", "sie_upgrade", "sie_relock", "sie_unlock_upgradable"}

\* shared locks thread t holds: its caller's, less the one its running
\* try_shared_into_exclusive has given up for the moment
SharedHeldBy(t) == tReadings[t] - (IF pc[t] \in {"sie_upgrade", "sie_relock"} THEN 1 ELSE 0)

UpgradableHeldBy(t) == pc[t] \in SieMidCall

RECURSIVE SharedHeldUpTo(_)
SharedHeldUpTo(n) == IF n = 0 THEN 0 ELSE SharedHeldBy(n) + SharedHeldUpTo(n - 1)

\* the lock state that the locks held amount to
SieHolders ==
    IF \E t \in Threads : tWriting[t] >= 1
    THEN [kind |-> "Writer", normal |-> 0, upgrade |-> FALSE]
    ELSE IF SharedHeldUpTo(NumThreads) = 0 /\ \A t \in Threads : ~UpgradableHeldBy(t)
         THEN [kind |-> "None", normal |-> 0, upgrade |-> FALSE]
         ELSE [kind |-> "Readers", normal |-> SharedHeldUpTo(NumThreads),
               upgrade |-> \E t \in Threads : UpgradableHeldBy(t)]

\* the shared lock of t's caller is the only lock held on the counter
SoleHolder(t) ==
    /\ tReadings[t] = 1 /\ tWriting[t] = 0
    /\ \A u \in Threads \ {t} :
          SharedHeldBy(u) = 0 /\ ~UpgradableHeldBy(u) /\ tWriting[u] = 0

\* C22  try_shared_into_exclusive, on the thread-confined counter and, under
\* every interleaving of the threads' calls, on the shared counter: a call
\* succeeds only if its caller's shared lock is the only lock held when it
\* decides, and then leaves the counter Exclusive; it fails (at once, or at its
\* try_upgrade) only if that is not so; a failing call changes nothing when it
\* fails at once, never panics, and in every state the lock is exactly what the
\* holders hold, a caller whose call failed still holding its shared lock; at
\* most one thread holds the exclusive lock.
C22_SharedIntoExclusive ==
    [][/\ \A t \in Threads :
             /\ tWriting'[t] = tWriting[t] + 1 =>
                   /\ SoleHolder(t)
                   /\ tReadings'[t] = tReadings[t] - 1
                   /\ AccessStateOf(Heap', SieRef).kind = "Writer"
             /\ (pc[t] = "sie_upgrade" /\ pc'[t] = "sie_relock") => ~SoleHolder(t)
             /\ (pc[t] = "sie_unlock_upgradable" /\ pc'[t] = "idle") =>
                   /\ tReadings'[t] = tReadings[t] /\ tReadings[t] >= 1
                   /\ last' = [op |-> "try_shared_into_exclusive", ok |-> FALSE]
             /\ pc'[t] # "panic"
       /\ (last' = [op |-> "try_shared_into_exclusive", ok |-> FALSE] /\ pc' = pc) =>
             /\ Heap' = Heap /\ tReadings' = tReadings /\ tWriting' = tWriting
             /\ \A t \in Threads : ~SoleHolder(t)
       /\ AccessStateOf(Heap', SieRef) = SieHolders'
       /\ Cardinality({t \in Threads : tWriting'[t] >= 1}) <= 1
       /\ \A t \in Threads : tWriting'[t] <= 1]_vars

\* on the shared counter, a call that overlapped another thread's has failed
\* at its try_upgrade and returned, the other thread still holding a shared lock
C22_Witness ==
    /\ ~SieLocal
    /\ last = [op |-> "try_shared_into_exclusive", ok |-> FALSE]
    /\ \A t \in Threads : pc[t] = "idle"
    /\ Cardinality({t \in Threads : tReadings[t] >= 1}) >= 2
    /\ gcell[SharedCounter].access = [readers |-> 2, upgradable |-> FALSE, writer |-> FALSE]

\* the lock state s with its upgradable holder gone
WithoutUpgradable(s) ==
    IF s.kind = "Readers" /\ s.normal = 0
    THEN [kind |-> "None", normal |-> 0, upgrade |-> FALSE]
    ELSE [s EXCEPT !.upgrade = FALSE]

\* C23  The upgradable lock (counter.rs, thread-confined and promoted
\* counters): in every reachable state, for every counter held,
\* try_lock_upgradable would succeed exactly if no upgradable lock and no
\* exclusive lock is held, setting the upgradable flag and nothing else; at most
\* one upgradable lock is held; while one is held try_lock_exclusive would fail
\* and try_lock_shared would succeed, and unlock_upgradable would clear the
\* upgradable flag and leave the shared count as it is.
C23_Upgradable ==
    \A l \in held :
        LET r == LRef(l)
            s == AccessStateOf(Heap, r)
            x == try_lock_upgradable(Heap, r) IN
        /\ x.ok <=> (hUpgr[l] = 0 /\ hExcl[l] = 0)
        /\ x.ok => AccessStateOf(x.h, r) = [kind |-> "Readers", normal |-> s.normal,
                                            upgrade |-> TRUE]
        /\ ~x.ok => x.h = Heap
        /\ hUpgr[l] <= 1
        /\ s.upgrade <=> hUpgr[l] = 1
        /\ hUpgr[l] = 1 =>
              /\ ~try_lock_exclusive(Heap, r).ok
              /\ try_lock_shared(Heap, r).ok
              /\ AccessStateOf(unlock_upgradable(Heap, r).h, r) = WithoutUpgradable(s)
              /\ s.normal = hShared[l]

\* try_lock_upgradable has succeeded on a counter with a shared holder
C23_Witness ==
    /\ last = [op |-> "try_lock_upgradable", ok |-> TRUE]
    /\ \E l \in held : hUpgr[l] = 1 /\ hShared[l] >= 1 /\ cell[l].tag = "Local"

\* C24  downgrade (counter.rs, thread-confined and promoted counters): in
\* every reachable state, for every counter whose exclusive lock is held,
\* downgrade would leave it Shared by one holder with no upgradable flag; from
\* there try_lock_shared would succeed, try_lock_exclusive would fail, and
\* unlock_shared by that one holder would leave the counter Unlocked.
C24_Downgrade ==
    \A l \in held :
        hExcl[l] = 1 =>
            LET r == LRef(l)
                d == downgrade(Heap, r).h IN
            /\ AccessStateOf(Heap, r).kind = "Writer"
            /\ AccessStateOf(d, r) = [kind |-> "Readers", normal |-> 1, upgrade |-> FALSE]
            /\ try_lock_shared(d, r).ok
            /\ ~try_lock_exclusive(d, r).ok
            /\ AccessStateOf(unlock_shared(d, r).h, r)
                   = [kind |-> "None", normal |-> 0, upgrade |-> FALSE]

\* downgrade has just turned the exclusive lock into the only shared lock
C24_Witness ==
    /\ last = [op |-> "downgrade", ok |-> TRUE]
    /\ \E l \in held :
          /\ hShared[l] = 1 /\ hExcl[l] = 0 /\ hUpgr[l] = 0
          /\ AccessStateOf(Heap, LRef(l)) = [kind |-> "Readers", normal |-> 1, upgrade |-> FALSE]

\* the lock state that the locks held through local handle l amount to
HeldThrough(l) ==
    IF hExcl[l] >= 1 THEN [kind |-> "Writer", normal |-> 0, upgrade |-> FALSE]
    ELSE IF hShared[l] = 0 /\ hUpgr[l] = 0
         THEN [kind |-> "None", normal |-> 0, upgrade |-> FALSE]
         ELSE [kind |-> "Readers", normal |-> hShared[l], upgrade |-> hUpgr[l] >= 1]

\* C25  After promotion the thread-confined handle is a redirect (counter.rs
\* LocalCounter): in every reachable state, for every promoted counter held,
\* with r the local handle and g the handle of its memoized shared counter,
\* count and bump through r are count and bump through g, every lock call
\* through r returns what and leaves the heap as the same call through g would,
\* the locks taken through r are the lock state seen through g, and a lock
\* call through r is seen as held by the next call through g.
C25_Redirect ==
    \A l \in held :
        cell[l].tag = "Global" =>
            LET r == LRef(l)
                g == GRef(cell[l].g) IN
            /\ count(Heap, r) = count(Heap, g)
            /\ count(Heap, g) = gcell[cell[l].g].counter
            /\ bump(Heap, r) = bump(Heap, g)
            /\ try_lock_shared(Heap, r) = try_lock_shared(Heap, g)
            /\ try_lock_exclusive(Heap, r) = try_lock_exclusive(Heap, g)
            /\ try_lock_upgradable(Heap, r) = try_lock_upgradable(Heap, g)
            /\ hShared[l] >= 1 =>
                  /\ unlock_shared(Heap, r) = unlock_shared(Heap, g)
                  /\ try_shared_into_exclusive(Heap, r) = try_shared_into_exclusive(Heap, g)
            /\ hUpgr[l] >= 1 =>
                  /\ unlock_upgradable(Heap, r) = unlock_upgradable(Heap, g)
                  /\ try_upgrade(Heap, r) = try_upgrade(Heap, g)
            /\ hExcl[l] >= 1 =>
                  /\ unlock_exclusive(Heap, r) = unlock_exclusive(Heap, g)
                  /\ downgrade(Heap, r) = downgrade(Heap, g)
            /\ AccessStateOf(Heap, g) = HeldThrough(l)
            /\ AccessStateOf(Heap, r) = AccessStateOf(Heap, g)
            /\ LET x == try_lock_exclusive(Heap, r) IN
               x.ok => /\ ~try_lock_shared(x.h, g).ok
                       /\ x.h.lc = cell
            /\ LET x == try_lock_shared(Heap, r) IN
               x.ok => /\ ~try_lock_exclusive(x.h, g).ok
                       /\ try_lock_upgradable(x.h, g).ok = (hUpgr[l] = 0)

\* try_lock_exclusive through the local handle of a promoted counter has
\* succeeded: the shared counter's RawRwLock has the writer
C25_Witness ==
    /\ last = [op |-> "try_lock_exclusive", ok |-> TRUE]
    /\ \E l \in held :
          /\ cell[l].tag = "Global" /\ hExcl[l] = 1
          /\ gcell[cell[l].g].access.writer
          /\ cell[l].access = 0
          /\ \A k \in held \ {l} : Unlocked(k)

\* the step is an Owned::new for layout L that found the local free list of L
\* empty and made a request to the global pool
Requested(L) ==
    /\ last'.op = "Owned::new"
    /\ pools.lfl[L] = <<>> /\ pools.rq[L] # 0
    /\ \E s \in pools'.owned \ pools.owned : pools'.cur[s] = L

\* C26  Batch requests from the global pool (old/allocator.rs), per layout: a
\* thread's request size starts at RequestInit (32 in the source); a request
\* moves at most the requested number of slots from the global to the local
\* free list; the next request size is at most double the size requested; and
\* the next size is smaller than the size requested only if the request moved
\* fewer slots than it asked for.
C26_BatchRequests ==
    [][/\ \A L \in Layouts :
             Requested(L) =>
                 LET moved == Len(pools.gfl[L]) - Len(pools'.gfl[L]) IN
                 /\ moved >= 0 /\ moved <= pools.rq[L]
                 /\ pools'.rq[L] <= 2 * pools.rq[L]
                 /\ pools'.rq[L] < pools.rq[L] => moved < pools.rq[L]
       /\ last'.op = "teardown" => \A L \in Layouts : pools'.rq[L] = RequestInit]_vars

\* a request that the global pool satisfied in full has left the request size
\* of its layout at zero
C26_Witness ==
    /\ last = [op |-> "Owned::new", ok |-> TRUE]
    /\ \E L \in Layouts :
          /\ pools.rq[L] < RequestInit
          /\ pools.gfl[L] = <<>>
          /\ Cardinality({s \in pools.owned : pools.cur[s] = L /\ pools.gen[s] > 1}) >= RequestInit

\* the sizes of the batches arena k has minted, oldest first
BatchSizes(k) == [i \in 1..Len(BatchesOf(k)) |-> BatchesOf(k)[i].len]

\* C27  Arena batch growth (old2/arena.rs): every batch of fresh counters
\* minted after the first has size at most MAX_CHUNK and, while one and a half
\* times the previous size is below that cap, has the previous batch's size
\* plus half of it.
C27_BatchGrowth ==
    \A k \in {"thread", "static"} :
        \A i \in 2..Len(BatchSizes(k)) :
            LET prev == BatchSizes(k)[i - 1]
                this == BatchSizes(k)[i] IN
            /\ this <= MAX_CHUNK
            /\ prev + prev \div 2 < MAX_CHUNK => this = prev + prev \div 2

\* both arenas of old2 have minted a batch beyond their second, and the last
\* allocation was the one that minted it
C27_Witness ==
    /\ last.ok /\ last.op \in {"thread", "static"}
    /\ Len(BatchSizes("thread")) >= 3
    /\ Len(BatchSizes("static")) >= 3

\* counter <<b, i>> lies in a batch that arena k still keeps
Retained(k, c) ==
    /\ c[1] \in 1..Len(BatchesOf(k))
    /\ c[2] \in 0..(BatchesOf(k)[c[1]].len - 1)

\* C28  The arenas of counter.rs never hand out the same counter twice and never
\* invalidate a counter handed out earlier: every counter in the log of fresh()
\* results, of the thread's arena and of the global arena with callers on
\* several threads, occurs there once and lies in a batch the arena still
\* keeps, and the counter fresh() returned last was Unlocked as it was made.
C28_FreshDistinct ==
    /\ \A k \in {"lfresh", "gfresh"} :
          /\ \A i, j \in 1..Len(arena.out[k]) :
                i # j => arena.out[k][i] # arena.out[k][j]
          /\ \A i \in 1..Len(arena.out[k]) : Retained(k, arena.out[k][i])
    /\ arena.res.k = "lfresh" =>
          /\ arena.res.v.tag = "Local"
          /\ AccessState_new(arena.res.v.access).kind = "None"
    /\ arena.res.k = "gfresh" => arena.res.v.access = RwLock_INIT

\* both arenas of counter.rs have minted a further batch, the global one for
\* callers on two threads, and one of them handed out the last counter
C28_Witness ==
    /\ arena.res.k \in {"lfresh", "gfresh"}
    /\ Len(arena.lfresh.leaked) >= 1 /\ arena.lfresh.next >= 1
    /\ Len(arena.gfresh.leaked) >= 2
    /\ Len(arena.out["gfresh"]) > FirstChunk
    /\ arena.res.k = "gfresh" /\ arena.res.by = 2

\* C29  Count sentinels (old2): the counter a new() call took fresh from its
\* arena has count 1, not the zero sentinel, so that reading it for
\* Owned::alias does not fail.
C29_CountSentinels ==
    arena.res.k \in {"thread", "static"} =>
        /\ arena.res.v = COUNTER_INIT
        /\ GenCounter_read(arena.res.v).ok

\* a counter fresh from the thread's arena, whose count cannot be read
C29_Witness ==
    /\ arena.res.k = "thread"
    /\ last.op = "thread"
    /\ ~GenCounter_read(arena.res.v).ok

\* the counters of the thread, each through its local handle, and the shared
\* counters through theirs
AllRefs == {LRef(l) : l \in Locals} \cup {GRef(g) : g \in Globals}

\* the step is a try_read or try_write of a Strong or a Weak that returned None
FailedTry ==
    /\ last'.op \in {"Strong::try_read", "Strong::try_write",
                     "Weak::try_read", "Weak::try_write"}
    /\ ~last'.ok

\* C30  Contention failures are pure: from every reachable state, a
\* try_lock_shared, try_lock_exclusive or try_lock_upgradable that returns false
\* leaves the counters (lock state and count) as they were, and a step in which
\* Strong::try_read, Strong::try_write, Weak::try_read or Weak::try_write
\* returns None changes neither the counters nor the payloads nor the guards
\* outstanding.
C30_ContentionPure ==
    [][/\ \A r \in AllRefs :
             /\ ~try_lock_shared(Heap, r).ok => try_lock_shared(Heap, r).h = Heap
             /\ ~try_lock_exclusive(Heap, r).ok => try_lock_exclusive(Heap, r).h = Heap
             /\ ~try_lock_upgradable(Heap, r).ok => try_lock_upgradable(Heap, r).h = Heap
       /\ FailedTry =>
             /\ counterVars' = counterVars
             /\ payload' = payload /\ box' = box
             /\ readings' = readings /\ writing' = writing]_vars

\* a Weak::try_read was refused while a Writing guard of its allocation is out
\* and the Weak is still valid
C30_Witness ==
    /\ last = [op |-> "Weak::try_read", ok |-> FALSE]
    /\ \E p \in Allocs :
          /\ strong[p] = "alive" /\ writing[p] = 1
          /\ Weak_is_valid(Heap, Ref(p), genref[p])
          /\ ~try_lock_shared(Heap, Ref(p)).ok

\* the step deallocates the Owned of slot s: Owned::drop, or a try_into_inner
\* that returned the payload
Deallocates(s) ==
    /\ s \in pools.owned /\ s \notin pools'.owned
    /\ last'.op \in {"Owned::drop", "try_into_inner"}

\* C31  In old/allocator.rs every deallocation of an Owned allocation adds
\* exactly one to the slot's generation, on the immediate path (free_now), the
\* deferred path (drop_later, then the purge) and free_and_take_unchecked: the
\* step that deallocates adds one, and the steps that purge the drop queue add
\* nothing.
C31_OneBumpPerDeallocation ==
    [][\A s \in Slots :
          /\ Deallocates(s) => pools'.gen[s] = (pools.gen[s] + 1) % GenModulus
          /\ last'.op \in {"Guard::drop", "try_deref"} => pools'.gen[s] = pools.gen[s]]_vars

\* an allocation was dropped with no guard registered, went through free_now
\* onto the local free list, and its generation is two above that of a fresh
\* slot
C31_Witness ==
    /\ last = [op |-> "Owned::drop", ok |-> TRUE]
    /\ \E s \in Slots :
          /\ s \notin pools.owned
          /\ pools.gen[s] = 3
          /\ pools.data[s] = "dropped"
          /\ OnLocalFreeList(pools, s)

\* the step drained the drop queue (old/allocator.rs purge_drop_queue)
Drained == pools.dropq # <<>> /\ pools'.dropq = <<>>

\* the times slot s occurs on the local free lists
RECURSIVE TimesIn(_, _)
TimesIn(fl, s) ==
    IF fl = <<>> THEN 0 ELSE (IF Head(fl) = s THEN 1 ELSE 0) + TimesIn(Tail(fl), s)

\* C32  Deferred destructors run outside the pool's borrow: a step that drains
\* the drop queue does not fail, also when a queued payload's destructor drops
\* another Owned of the thread, and that nested allocation is freed exactly
\* once: its payload is dropped once and its slot is on the local free list
\* once (or on none, at the end of its generations).
C32_NestedDrop ==
    [][Drained =>
          /\ last'.op # "BorrowMutError"
          /\ \A e \in Queued(pools) :
                LET t == pools.holds[e.s] IN
                t # 0 =>
                    /\ pools'.data[t] = "dropped" /\ pools'.drops[t] = 1
                    /\ IF is_end_of_life(pools.gen[t]) THEN ~OnLocalFreeList(pools', t)
                       ELSE TimesIn(pools'.lfl[pools.cur[t]], t) = 1]_vars

\* the drain of the drop queue panicked in the destructor of a payload that
\* holds an Owned: the nested payload is dropped and its slot is on no list
C32_Witness ==
    /\ last = [op |-> "BorrowMutError", ok |-> FALSE]
    /\ pools.dropq = <<>> /\ pools.guards = 0
    /\ \E t \in Slots :
          /\ pools.data[t] = "dropped" /\ pools.gen[t] = 3
          /\ ~OnLocalFreeList(pools, t)
          /\ t \notin pools.owned

\* C33  Teardown of the thread-local pool of allocator.rs: Drop panics only
\* when guards are still registered; with no guard registered it does not
\* panic, the drop queue is purged and the global free list of every layout
\* then holds what it held, the slots of the local free list and those of the
\* purge.
C33_TeardownPanic ==
    [][last'.op = "teardown" =>
          LET d == Allocator_drop(pools) IN
          /\ ~d.ok => pools.guards > 0
          /\ pools.guards = 0 =>
                /\ d.ok /\ last'.ok
                /\ d.q.dropq = <<>>
                /\ \A L \in Layouts :
                      SlotsOn(d.q.gfl[L]) = (SlotsOn(pools.gfl[L]) \cup SlotsOn(pools.lfl[L]))
                                                \cup PurgedTo(pools, L)]_vars

\* the local pool of allocator.rs was dropped with no guard registered and
\* slots on its free lists, and Drop panicked
C33_Witness ==
    /\ pools.variant = "allocator.rs"
    /\ last = [op |-> "teardown", ok |-> FALSE]
    /\ \E L \in Layouts : pools.gfl[L] = <<>>
    /\ \E s \in Slots : pools.gen[s] >= 1 /\ pools.data[s] # "none"

\* C34  The thread-confined counter of the ledger variant (local_ledger.rs): in
\* every reachable lock state, unlock_exclusive panics unless the state is
\* exclusive and unlock_shared panics unless a shared lock is held, the lock
\* state being unchanged by a panic and otherwise 0, respectively one holder
\* fewer; lock_exclusive panics, leaving the state, when the counter is locked
\* and takes the exclusive lock when it is not.
C34_LedgerPanics ==
    \A l \in Locals :
        LET ue == local_ledger_unlock_exclusive(ledger[l])
            us == local_ledger_unlock_shared(ledger[l])
            le == local_ledger_lock_exclusive(ledger[l]) IN
        /\ ledger[l] >= -1
        /\ ue.ok <=> ledger[l] = -1
        /\ ue.st = IF ue.ok THEN 0 ELSE ledger[l]
        /\ us.ok <=> ledger[l] >= 1
        /\ us.st = IF us.ok THEN ledger[l] - 1 ELSE ledger[l]
        /\ le.ok <=> ledger[l] = 0
        /\ le.st = IF le.ok THEN -1 ELSE ledger[l]

\* unlock_shared has panicked on a counter that is locked exclusively while
\* another counter has shared holders
C34_Witness ==
    /\ last = [op |-> "unlock_shared", ok |-> FALSE]
    /\ \E l, m \in Locals : ledger[l] = -1 /\ ledger[m] >= 1

\* the step promotes local counter l (LocalCounter::globalize, first call)
Promotes(l) == cell[l].tag = "Local" /\ cell'[l].tag = "Global"

\* C35  Promotion preserves the count: right after globalize the shared counter
\* has the count the thread-confined counter had right before, whatever that
\* count was, and every Weak on the counter is valid after the promotion
\* exactly if it was valid before.
C35_PromotionPreservesCount ==
    [][\A l \in Locals :
          Promotes(l) =>
              /\ gcell'[cell'[l].g].counter = cell[l].counter
              /\ count(Heap', LRef(l)) = count(Heap, LRef(l))
              /\ \A p \in Allocs :
                    strong[p] # "unborn" /\ genptr[p] = l =>
                        (Weak_is_valid(Heap', Ref(p), genref[p])
                            <=> Weak_is_valid(Heap, Ref(p), genref[p]))]_vars

\* share() has promoted a retired counter: the shared counter shows the count
\* of a fresh counter, and a Weak of an allocation dropped on it, which cached
\* that count, is valid
C35_Witness ==
    /\ last = [op |-> "share", ok |-> TRUE]
    /\ \E l \in Locals :
          /\ cell[l].tag = "Global"
          /\ gcell[cell[l].g].counter = COUNTER_INIT
          /\ \A p \in Allocs : genptr[p] = l => strong[p] = "gone"
          /\ \E p \in Allocs :
                /\ genptr[p] = l /\ payload[p] = "dropped"
                /\ genref[p] = COUNTER_INIT
                /\ Weak_is_valid(Heap, Ref(p), genref[p])

\* the live Strongs whose counter is l
OwnersOf(l) == {p \in Allocs : strong[p] = "alive" /\ genptr[p] = l}

\* counter l awaits a deferred drop: its owner is gone, the payload is still
\* there and guards on it are outstanding
AwaitingDrop(l) ==
    \E p \in Allocs :
        /\ genptr[p] = l /\ strong[p] = "gone" /\ payload[p] = "live"
        /\ readings[p] + writing[p] >= 1

\* counter l is retired: its count is the zero sentinel
RetiredCounter(l) == count(Heap, LRef(l)) = 0

\* the conditions counter l is in, each counted as often as it holds
ConditionsOf(l) ==
    Cardinality(OwnersOf(l))
        + (IF AwaitingDrop(l) THEN 1 ELSE 0)
        + TimesIn(freeList, l)
        + (IF RetiredCounter(l) /\ ~AwaitingDrop(l) THEN 1 ELSE 0)

\* C36  Counter ownership in the handle layer: in every reachable state each
\* counter handed out so far is in exactly one of these conditions: owned by
\* one live Strong, awaiting a deferred drop, on the free list once, or
\* retired; and the counter new() would hand out next is on the free list,
\* neither owned nor awaiting a drop.
C36_CounterOwnership ==
    /\ \A l \in 1..nextFresh : ConditionsOf(l) = 1
    /\ CanNew(Heap) =>
          LET n == LocalGeneration_new(Heap) IN
          ~n.fresh => /\ OwnersOf(n.l) = {} /\ ~AwaitingDrop(n.l)
                      /\ TimesIn(freeList, n.l) = 1

\* a counter is back on the free list after a deferred drop: its owner was
\* dropped under a Reading guard and the guard's drop freed it, while another
\* allocation is alive
C36_Witness ==
    /\ last = [op |-> "Reading::drop", ok |-> TRUE]
    /\ \E p, q \in Allocs :
          /\ strong[p] = "gone" /\ payload[p] = "dropped"
          /\ TimesIn(freeList, genptr[p]) = 1
          /\ strong[q] = "alive" /\ genptr[q] # genptr[p]

\* the live Reading and Writing guards on counter l, of all its allocations
RECURSIVE GuardsUpTo(_, _, _)
GuardsUpTo(g, l, n) ==
    IF n = 0 THEN 0
    ELSE (IF genptr[n] = l /\ strong[n] # "unborn" THEN g[n] ELSE 0) + GuardsUpTo(g, l, n - 1)

ReadingsOn(l) == GuardsUpTo(readings, l, MaxAllocs)
WritingsOn(l) == GuardsUpTo(writing, l, MaxAllocs)

\* C37  Lock-word balance: for a thread-confined counter used through Strong,
\* Weak, Reading and Writing handles, in every reachable state the lock word is
\* twice the number of live Reading guards on it, or -1 when exactly one
\* Writing guard is live; it is never below -1, and it is 0 when no guard is
\* live.
C37_LockWordBalance ==
    \A l \in Locals :
        cell[l].tag = "Local" =>
            /\ WritingsOn(l) <= 1
            /\ WritingsOn(l) = 1 => ReadingsOn(l) = 0
            /\ cell[l].access = IF WritingsOn(l) = 1 THEN -1 ELSE 2 * ReadingsOn(l)
            /\ cell[l].access >= -1
            /\ ReadingsOn(l) + WritingsOn(l) = 0 => cell[l].access = 0

\* a Writing guard was dropped and left the lock word of its counter at 0,
\* while another counter carries two Reading guards
C37_Witness ==
    /\ last.op = "Writing::drop"
    /\ \E l, m \in Locals :
          /\ l # m /\ cell[l].tag = "Local" /\ cell[m].tag = "Local"
          /\ ReadingsOn(l) = 2 /\ cell[l].access = 4
          /\ m <= nextFresh /\ ReadingsOn(m) + WritingsOn(m) = 0 /\ cell[m].access = 0

\* ---- C38: the rollback of the shared counter's try_shared_into_exclusive
\* the threads whose try_shared_into_exclusive is between its failed
\* try_upgrade and its rollback try_lock_shared
RollingBack == {t \in Threads : pc[t] = "sie_relock"}

\* C38  The rollback inside the shared counter's try_shared_into_exclusive
\* (try_lock_shared after a failed try_upgrade, the upgradable lock still
\* held) never fails: under every interleaving of the handle operations of the
\* threads, whenever a thread is about to roll back it holds the upgradable
\* lock, no writer holds the counter, its try_lock_shared is granted, and no
\* step takes it from the rollback to the panic.
C38_RollbackNeverFails ==
    [][\A t \in RollingBack :
          /\ gcell[SharedCounter].access.upgradable
          /\ ~gcell[SharedCounter].access.writer
          /\ GlobalCounter_try_lock_shared(gcell[SharedCounter].access).ok
          /\ pc'[t] # "panic"]_vars

\* a thread's try_upgrade has failed over another thread's shared lock and its
\* rollback has taken the shared lock again, the upgradable lock still held
C38_Witness ==
    \E t \in Threads :
        /\ pc[t] = "sie_unlock_upgradable"
        /\ gcell[SharedCounter].access = [readers |-> 2, upgradable |-> TRUE, writer |-> FALSE]

\* ---- C39: the request-size latch
\* the step is an Owned::new of layout L on the first thread that found the
\* local free list of L empty
NewPastLocal(L) ==
    /\ last'.op = "Owned::new"
    /\ pools.lfl[L] = <<>>
    /\ \E s \in pools'.owned \ pools.owned : pools'.cur[s] = L

\* C39  Request-size latch (old/allocator.rs): once the request size of a
\* thread's local pool for a layout has dropped to zero, it stays zero under
\* every operation of either thread but reset_request_behavior, and an
\* allocation of that layout that finds the local free list empty takes nothing
\* from the global pool, however full, and mints a fresh slot;
\* reset_request_behavior sets every zero request size to the first size
\* (RequestInit, 32 in the source) and leaves the others, after which an
\* allocation that finds the local list empty and the global one not takes
\* its slot from the global pool.
C39_RequestLatch ==
    [][/\ \A L \in Layouts :
             /\ (pools.rq[L] = 0 /\ last'.op # "reset_request_behavior") =>
                   pools'.rq[L] = 0
             /\ (pools.rq[L] = 0 /\ NewPastLocal(L)) =>
                   /\ pools'.gfl = pools.gfl
                   /\ pools'.minted = pools.minted + 1
                   /\ last'.ok = FALSE
             /\ (pools.rq[L] # 0 /\ NewPastLocal(L) /\ pools.gfl[L] # <<>>) =>
                   /\ Len(pools'.gfl[L]) < Len(pools.gfl[L])
                   /\ pools'.minted = pools.minted
                   /\ last'.ok = TRUE
       /\ last'.op = "reset_request_behavior" =>
             /\ \A L \in Layouts :
                   pools'.rq[L] = IF pools.rq[L] = 0 THEN RequestInit ELSE pools.rq[L]
             /\ pools'.gfl = pools.gfl /\ pools'.lfl = pools.lfl]_vars

\* the first thread's request size of a layout is zero, the second thread's
\* exit has refilled the global free list of that layout, and the first
\* thread's latest allocation of that layout has minted a fresh slot all the
\* same
C39_Witness ==
    /\ last = [op |-> "Owned::new", ok |-> FALSE]
    /\ pools.minted \in pools.owned
    /\ LET L == pools.cur[pools.minted] IN
       /\ pools.rq[L] = 0
       /\ pools.lfl[L] = <<>>
       /\ pools.gfl[L] # <<>>

====
